---- MODULE Spec2Model ----
(***************************************************************************)
(* Model of tools/populate_db.py: the rule-based derivation engine that    *)
(* rebuilds expression templates, expressions, expression text, costs,     *)
(* signatures and acquisition profiles of the Superpower catalog inside    *)
(* one SQLite transaction per phase.                                       *)
(*                                                                         *)
(* Identifiers: stable_id(p1, .., pn) is sha1("p1|..|pn"); the parts never *)
(* contain "|" here, so the digest is modelled by the tuple of its parts  *)
(* (equal ids <=> equal parts).                                            *)
(***************************************************************************)
EXTENDS Integers, Sequences, FiniteSets, Bags, TLC

\* ---------------------------------------------------------------- bounds
\* largest number of calls of add on the signatures dict of one expression
MaxAdds == 3
\* largest number of tag rows of the input catalog
MaxTagRows == 2
\* largest value of max_per_power / max_profiles_per_power tried
MaxCap == 3
\* the rowids of Superpower4
PowerIds == {1, 2}

\* the powers that carry tags; the other power has no tag rows at all
TaggedPowers == {1}

\* ------------------------------------------------------------ tag tables
\* Tags that occur in the input catalog (power_tag.tag after strip/lower).
TagUniverse ==
  {"fire", "ice", "earth", "mind", "body", "space", "magic", "time", "tech",
   "radiation", "unmapped_tag", "kind:mobility", "kind:mind"}

\* the kind:* tags that entities carry, each with the value behind the colon
KindTable ==
  { <<"kind:mobility", "mobility">>, <<"kind:mind", "mind">>,
    <<"kind:movement", "movement">>, <<"kind:psychic", "psychic">>,
    <<"kind:info", "info">>, <<"kind:mind-mover", "mind-mover">> }

\* tag.lower().startswith("kind:")
IsKindTag(tag) == \E e \in KindTable : e[1] = tag

\* tag.split(":", 1)[1].strip()
KindValue(tag) ==
  IF IsKindTag(tag) THEN (CHOOSE e \in KindTable : e[1] = tag)[2] ELSE ""

\* _extract_kind iterates a Python set: the first kind:* tag met in the
\* set's iteration order wins.  The order of a set of str depends on the
\* per-process string hash seed, so with several kind:* tags every one of
\* them is a possible result.
ExtractKindResults(raw_tags) ==
  IF \E t \in raw_tags : IsKindTag(t)
    THEN {KindValue(t) : t \in {u \in raw_tags : IsKindTag(u)}}
    ELSE {""}

\* ------------------------------------------------------------------ JSON
\* The values json.loads gives for the "cooldown" key: an int, a float (kept
\* in tenths), a str or None.
JInt(n) == [type |-> "int", n |-> n]

JFloat(tenths) == [type |-> "float", tenths |-> tenths]

JStr(text) == [type |-> "str", text |-> text]

JNull == [type |-> "NoneType"]

\* the strings that int() accepts, with their values
IntLiterals == { <<"3", 3>> }

\* Python's int(x): <<n>> when it returns n, << >> when it raises ValueError
\* or TypeError.  A float is truncated towards zero.
int(x) ==
  CASE x.type = "int" -> <<x.n>>
    [] x.type = "float" ->
         << IF x.tenths >= 0 THEN x.tenths \div 10 ELSE -((-x.tenths) \div 10) >>
    [] x.type = "str" ->
         IF \E l \in IntLiterals : l[1] = x.text
           THEN <<(CHOOSE l \in IntLiterals : l[1] = x.text)[2]>>
           ELSE << >>
    [] OTHER -> << >>

\* a constraints dict, of which the engine reads the key "cooldown" only
Dict(hasCd, cd) == [type |-> "dict", has_cooldown |-> hasCd, cooldown |-> cd]

\* json.dumps(obj) of a dict: the text stored in a constraints column
json_dumps(obj) == [json |-> "object", value |-> obj]

\* the other texts a constraints column may hold: text that is not JSON, JSON
\* that is not an object, and NULL or the empty string
InvalidText == [json |-> "invalid"]

ArrayText == [json |-> "array"]

NullText == [json |-> "null"]

\* json.loads(text) returns, it does not raise json.JSONDecodeError
JsonParses(text) == text.json # "invalid"

\* json.loads(constraints_json or "{}") where it returns
json_loads(text) ==
  CASE text.json = "object" -> text.value
    [] text.json = "null" -> Dict(FALSE, JNull)
    [] OTHER -> [type |-> "list"]

\* ------------------------------------------------------ seeded templates
NoKind == "NULL"

Tmpl(id, tags, form, delivery, hasCd, cd, w) ==
  [template_id |-> id, kind_match |-> NoKind, tags_any |-> tags, form |-> form,
   delivery |-> delivery,
   constraints |-> Dict(hasCd, IF hasCd THEN JInt(cd) ELSE JNull),
   rarity_weight |-> w]

\* the templates list of seed_expression_templates, in list order
SeedTemplates ==
  << Tmpl("tmpl_touch_direct",
          {"touch", "absorb", "copy", "change", "pain", "control", "manipulation"},
          "TOUCH", "INSTANT", TRUE, 1, 85),
     Tmpl("tmpl_touch_psychic", {"mind", "mental", "psychic"},
          "TOUCH", "INSTANT", TRUE, 2, 70),
     Tmpl("tmpl_touch_soul", {"death", "life", "soul", "ghost"},
          "TOUCH", "INSTANT", TRUE, 2, 60),
     Tmpl("tmpl_beam_energy", {"energy", "light", "heat", "electricity", "fire"},
          "BEAM", "INSTANT", TRUE, 2, 85),
     Tmpl("tmpl_proj_element",
          {"ice", "water", "earth", "air", "shadow", "dark", "darkness"},
          "PROJECTILE", "INSTANT", TRUE, 2, 70),
     Tmpl("tmpl_zone_element",
          {"fire", "ice", "water", "shadow", "darkness", "electricity"},
          "ZONE", "TOGGLED", FALSE, 0, 45),
     Tmpl("tmpl_zone_control", {"control", "manipulation", "change", "pain"},
          "ZONE", "TOGGLED", FALSE, 0, 80),
     Tmpl("tmpl_aura_control", {"control", "manipulation", "absorb"},
          "AURA", "TOGGLED", FALSE, 0, 55),
     Tmpl("tmpl_move_speed", {"speed", "air"},
          "MOVEMENT", "TOGGLED", FALSE, 0, 55),
     Tmpl("tmpl_move_space", {"space"},
          "MOVEMENT", "TRIGGERED", TRUE, 3, 45),
     Tmpl("tmpl_summon", {"summoning", "ghost", "death", "soul"},
          "SUMMON", "INSTANT", TRUE, 4, 65),
     Tmpl("tmpl_zone_magic", {"magic", "reality", "time"},
          "ZONE", "CHANNELED", TRUE, 3, 55),
     Tmpl("tmpl_aura_magic", {"magic", "god", "reality"},
          "AURA", "TOGGLED", FALSE, 0, 45),
     Tmpl("tmpl_sense_visual", {"vision", "sight", "eyes"},
          "SENSE", "CHANNELED", FALSE, 0, 85),
     Tmpl("tmpl_sense_knowledge", {"knowledge"},
          "SENSE", "CHANNELED", FALSE, 0, 70),
     Tmpl("tmpl_sense_psychic", {"psychic", "mind"},
          "SENSE", "CHANNELED", FALSE, 0, 35),
     Tmpl("tmpl_trait_body",
          {"body", "strength", "speed", "durability", "regeneration", "animal",
           "ghost", "god", "life", "death"},
          "PASSIVE", "CHANNELED", FALSE, 0, 80) >>

\* ------------------------------------------------------- generic helpers
Min(a, b) == IF a <= b THEN a ELSE b

Max(a, b) == IF a >= b THEN a ELSE b

\* Python's seq[:k] for k >= 0
Take(s, k) == SubSeq(s, 1, Min(k, Len(s)))

\* InsertByWeight with x put in front of the elements of equal weight
InsertByWeight_Unstable(sorted, x) ==
  LET n == Cardinality({i \in 1..Len(sorted) :
                          sorted[i].rarity_weight > x.rarity_weight})
  IN SubSeq(sorted, 1, n) \o <<x>> \o SubSeq(sorted, n + 1, Len(sorted))

\* one step of a stable descending sort: x goes behind every element whose
\* weight is not smaller than its own
InsertByWeight(sorted, x) ==
  LET n == Cardinality({i \in 1..Len(sorted) :
                          sorted[i].rarity_weight >= x.rarity_weight})
  IN SubSeq(sorted, 1, n) \o <<x>> \o SubSeq(sorted, n + 1, Len(sorted))

RECURSIVE SortByWeightDesc(_)
\* sorted(matches, key=lambda x: -x["rarity_weight"]); Python's sort is stable
SortByWeightDesc(s) ==
  IF s = <<>> THEN <<>>
  ELSE InsertByWeight(SortByWeightDesc(SubSeq(s, 1, Len(s) - 1)), s[Len(s)])

\* stable_id(*parts)
stable_id(parts) == parts

\* ----------------------------------------------- 2) expression synthesis
template_matches(power_kind, power_tags, tmpl) ==
  IF tmpl.kind_match # NoKind /\ tmpl.kind_match # "" /\ tmpl.kind_match # power_kind
    THEN FALSE
  ELSE IF tmpl.tags_any # {}
    THEN (power_tags \cap tmpl.tags_any) # {}
  ELSE TRUE

Fallback(id, form, delivery, hasCd, cd, w) ==
  [template_id |-> id, form |-> form, delivery |-> delivery,
   constraints |-> Dict(hasCd, IF hasCd THEN JInt(cd) ELSE JNull),
   rarity_weight |-> w]

\* ElementalTags with a tag that no authored template lists
ElementalTags_Radiation ==
  {"energy", "light", "heat", "electricity", "fire", "ice", "water", "earth",
   "air", "shadow", "dark", "darkness", "radiation"}

ElementalTags ==
  {"energy", "light", "heat", "electricity", "fire", "ice", "water", "earth",
   "air", "shadow", "dark", "darkness"}

ControlTags ==
  {"control", "manipulation", "change", "absorb", "magic", "reality", "time"}

\* fallback_templates with the neutral touch weighted above the authored catalog
fallback_templates_Heavy(power_tags) ==
  << Fallback("fallback_touch_neutral", "TOUCH", "INSTANT", TRUE, 2, 90) >> \o
  ( IF (power_tags \cap ElementalTags) # {}
      THEN << Fallback("fallback_projectile_element", "PROJECTILE", "INSTANT", TRUE, 2, 10) >>
    ELSE IF (power_tags \cap ControlTags) # {}
      THEN << Fallback("fallback_aura_control", "AURA", "TOGGLED", FALSE, 0, 9) >>
    ELSE << Fallback("fallback_touch_followup", "TOUCH", "TRIGGERED", TRUE, 3, 8) >> )

fallback_templates(power_tags) ==
  << Fallback("fallback_touch_neutral", "TOUCH", "INSTANT", TRUE, 2, 12) >> \o
  ( IF (power_tags \cap ElementalTags) # {}
      THEN << Fallback("fallback_projectile_element", "PROJECTILE", "INSTANT", TRUE, 2, 10) >>
    ELSE IF (power_tags \cap ControlTags) # {}
      THEN << Fallback("fallback_aura_control", "AURA", "TOGGLED", FALSE, 0, 9) >>
    ELSE << Fallback("fallback_touch_followup", "TOUCH", "TRIGGERED", TRUE, 3, 8) >> )

\* load_expression_templates keeps these keys of an enabled template row
LoadedTemplate(row) ==
  [template_id |-> row.template_id, kind_match |-> row.kind_match,
   tags_any |-> row.tags_any, form |-> row.form, delivery |-> row.delivery,
   constraints |-> json_loads(row.constraints), rarity_weight |-> row.rarity_weight]

\* the authored templates that match, in catalog order
AuthoredMatches(kind, power_tags, templates) ==
  SelectSeq(templates, LAMBDA t : template_matches(kind, power_tags, t))

RECURSIVE TopUp(_, _)
\* append the supplemental templates whose template_id is not yet present
TopUp(matches, supplemental) ==
  IF supplemental = <<>> THEN matches
  ELSE LET m == Head(supplemental)
       IN IF m.template_id \in {matches[i].template_id : i \in 1..Len(matches)}
            THEN TopUp(matches, Tail(supplemental))
            ELSE TopUp(Append(matches, m), Tail(supplemental))

Payload(t) ==
  [template_id |-> t.template_id, form |-> t.form, delivery |-> t.delivery,
   constraints |-> t.constraints, rarity_weight |-> t.rarity_weight]

\* Candidates without the fallback policy
Candidates_NoFallback(kind, power_tags, templates) ==
  LET authored == AuthoredMatches(kind, power_tags, templates)
  IN [i \in 1..Len(authored) |-> Payload(authored[i])]

\* Candidates without the top-up of a single match
Candidates_NoTopUp(kind, power_tags, templates) ==
  LET authored == AuthoredMatches(kind, power_tags, templates)
      payloads == [i \in 1..Len(authored) |-> Payload(authored[i])]
  IN IF payloads = <<>> THEN fallback_templates(power_tags) ELSE payloads

\* the candidate list of one power before ranking (lines 240-278)
Candidates(kind, power_tags, templates) ==
  LET authored == AuthoredMatches(kind, power_tags, templates)
      payloads == [i \in 1..Len(authored) |-> Payload(authored[i])]
      matches  == IF payloads = <<>> THEN fallback_templates(power_tags) ELSE payloads
  IN IF Len(matches) < 2 THEN TopUp(matches, fallback_templates(power_tags))
     ELSE matches

\* matches = sorted(...)[:max_per_power]
SelectMatches(kind, power_tags, templates, max_per_power) ==
  Take(SortByWeightDesc(Candidates(kind, power_tags, templates)), max_per_power)

make_ui_suffix(form) ==
  CASE form = "BEAM" -> "Lance"
    [] form = "PROJECTILE" -> "Bolt"
    [] form = "TOUCH" -> "Touch"
    [] form = "AURA" -> "Aegis"
    [] form = "ZONE" -> "Field"
    [] form = "CONSTRUCT" -> "Construct"
    [] form = "SUMMON" -> "Summon"
    [] form = "PASSIVE" -> "Trait"
    [] form = "MOVEMENT" -> "Step"
    [] form = "SENSE" -> "Sense"
    [] OTHER -> form

ExprId(power_id, t) == stable_id(<<power_id, t.template_id, t.form, t.delivery>>)

ExpressionRow(power_id, t) ==
  [expression_id |-> ExprId(power_id, t), power_id |-> power_id,
   expression_name |-> make_ui_suffix(t.form), form |-> t.form,
   delivery |-> t.delivery, constraints |-> json_dumps(t.constraints),
   is_enabled |-> TRUE]

TextRow(power_id, t) ==
  [expression_id |-> ExprId(power_id, t), locale |-> "en-GB",
   ui_name |-> make_ui_suffix(t.form)]

\* INSERT OR REPLACE into a table whose primary key is the field `key`
Upsert(table, row, key) == {r \in table : r[key] # row[key]} \cup {row}

RECURSIVE UpsertAll(_, _, _)
UpsertAll(table, rows, key) ==
  IF rows = <<>> THEN table
  ELSE UpsertAll(Upsert(table, Head(rows), key), Tail(rows), key)

\* ------------------------------------------------------------- 3a) costs
\* base_cooldown that gives 0 when the value cannot be used
base_cooldown_ZeroOnFailure(constraints, default) ==
  IF constraints.type # "dict" THEN 0
  ELSE IF ~ constraints.has_cooldown THEN default
  ELSE IF int(constraints.cooldown) = << >> THEN 0
  ELSE int(constraints.cooldown)[1]

\* try: int(constraints.get("cooldown", default)) except Exception: default.
\* A constraints value that is no dict has no get: AttributeError, default.
base_cooldown(constraints, default) ==
  IF constraints.type # "dict" THEN default
  ELSE IF ~ constraints.has_cooldown THEN default
  ELSE IF int(constraints.cooldown) = << >> THEN default
  ELSE int(constraints.cooldown)[1]

MindTags == {"mind", "psychic", "mental"}

\* CostsFor with the TOUCH resource rows not made exclusive
CostsFor_BothResources(form, constraints, tags_lower) ==
  CASE form = "TOUCH" ->
         (IF (MindTags \cap tags_lower) # {} THEN << <<"FOCUS", 1>> >> ELSE << >>)
           \o << <<"STAMINA", 1>>, <<"COOLDOWN", base_cooldown(constraints, 1)>> >>
    [] form \in {"PROJECTILE", "BEAM"} ->
         << <<"STAMINA", 2>>, <<"COOLDOWN", base_cooldown(constraints, 2)>> >>
    [] form \in {"ZONE", "AURA"} ->
         << <<"FOCUS", 2>>, <<"STAMINA", 1>>,
            <<"COOLDOWN", base_cooldown(constraints, 2)>> >>
    [] form = "MOVEMENT" ->
         << <<"STAMINA", 1>>, <<"COOLDOWN", base_cooldown(constraints, 2)>> >>
    [] form = "SUMMON" ->
         << <<"FOCUS", 3>>, <<"COOLDOWN", base_cooldown(constraints, 4)>> >>
    [] form = "SENSE" -> << <<"FOCUS", 1>> >>
    [] OTHER -> << >>

\* the costs list built for one expression (lines 343-367)
CostsFor(form, constraints, tags_lower) ==
  CASE form = "TOUCH" ->
         << IF (MindTags \cap tags_lower) # {} THEN <<"FOCUS", 1>> ELSE <<"STAMINA", 1>>,
            <<"COOLDOWN", base_cooldown(constraints, 1)>> >>
    [] form \in {"PROJECTILE", "BEAM"} ->
         << <<"STAMINA", 2>>, <<"COOLDOWN", base_cooldown(constraints, 2)>> >>
    [] form \in {"ZONE", "AURA"} ->
         << <<"FOCUS", 2>>, <<"STAMINA", 1>>,
            <<"COOLDOWN", base_cooldown(constraints, 2)>> >>
    [] form = "MOVEMENT" ->
         << <<"STAMINA", 1>>, <<"COOLDOWN", base_cooldown(constraints, 2)>> >>
    [] form = "SUMMON" ->
         << <<"FOCUS", 3>>, <<"COOLDOWN", base_cooldown(constraints, 4)>> >>
    [] form = "SENSE" -> << <<"FOCUS", 1>> >>
    [] OTHER -> << >>

CostRow(expr_id, c) == [expression_id |-> expr_id, cost_type |-> c[1], value |-> c[2]]

\* -------------------------------------------------------- 3b) signatures
form_strength(form) ==
  CASE form = "TOUCH" -> 15
    [] form = "PROJECTILE" -> 35
    [] form = "BEAM" -> 40
    [] form = "ZONE" -> 50
    [] form = "AURA" -> 45
    [] form = "SUMMON" -> 70
    [] form = "SENSE" -> 10
    [] form = "MOVEMENT" -> 25
    [] OTHER -> 20

form_persistence(form) ==
  CASE form = "TOUCH" -> 2
    [] form = "PROJECTILE" -> 3
    [] form = "BEAM" -> 3
    [] form = "ZONE" -> 6
    [] form = "AURA" -> 6
    [] form = "SUMMON" -> 10
    [] form = "SENSE" -> 8
    [] form = "MOVEMENT" -> 4
    [] OTHER -> 2

visual_tags ==
  {"light", "dark", "darkness", "shadow", "invisibility", "illusion",
   "vision", "sight", "eyes"}
em_tags == {"electricity", "electric", "energy", "technology", "tech", "nanotech"}
thermal_tags == {"fire", "heat", "ice", "cool", "water"}
acoustic_tags == {"sound", "sonic"}
chemical_tags == {"acid", "poison", "toxin", "chemical"}
bio_tags == {"blood", "biological", "bio", "body", "healing", "regeneration", "animal"}
psychic_tags ==
  {"mind", "mental", "psychic", "emotion", "memory", "telepathy", "dream", "dreams"}
dimensional_tags == {"teleport", "teleportation", "portal", "space", "summoning"}
grav_tags == {"gravity"}
arcane_tags == {"magic", "demon", "demonic", "curse", "arcane"}
causal_tags == {"time", "reality"}
kinetic_tags == {"strength", "powerful", "earth", "pain"}
radiation_tags == {"radiation"}

\* the signatures dict: a function from signature type to <<strength, persistence>>
EmptyDict == [t \in {} |-> <<0, 0>>]

\* an Optional[int] argument: <<>> is None, <<n>> is n
None == << >>

Some(n) == <<n>>

\* add that sums the contributions to one type
add_Sum(signatures, form, sig_type, strength, persistence) ==
  LET s == IF strength # None THEN strength[1] ELSE form_strength(form)
      p == IF persistence # None THEN persistence[1] ELSE form_persistence(form)
      v == IF sig_type \in DOMAIN signatures
             THEN <<signatures[sig_type][1] + s, signatures[sig_type][2] + p>>
             ELSE <<s, p>>
  IN [t \in DOMAIN signatures \cup {sig_type} |->
        IF t = sig_type THEN v ELSE signatures[t]]

\* the inner function add(sig_type, strength, persistence), on the dict it closes over
add(signatures, form, sig_type, strength, persistence) ==
  LET s == IF strength # None THEN strength[1] ELSE form_strength(form)
      p == IF persistence # None THEN persistence[1] ELSE form_persistence(form)
      v == IF sig_type \in DOMAIN signatures
             THEN <<Max(signatures[sig_type][1], s), Max(signatures[sig_type][2], p)>>
             ELSE <<s, p>>
  IN [t \in DOMAIN signatures \cup {sig_type} |->
        IF t = sig_type THEN v ELSE signatures[t]]

\* add(sig_type) when cond holds
AddIf(cond, signatures, form, sig_type, strength, persistence) ==
  IF cond THEN add(signatures, form, sig_type, strength, persistence) ELSE signatures

\* Step A without the branch for TOUCH
StepA_NoTouch(form, tags_lower) ==
  CASE form \in {"PROJECTILE", "BEAM"} ->
         LET a == add(EmptyDict, form, "VISUAL_ANOMALY", None, None)
             b == AddIf((tags_lower \cap em_tags) # {}, a, form, "EM_SPIKE", None, None)
         IN AddIf((tags_lower \cap thermal_tags) # {}, b, form, "THERMAL_BLOOM", None, None)
    [] form \in {"ZONE", "AURA"} ->
         add(EmptyDict, form, "VISUAL_ANOMALY", None, None)
    [] form = "MOVEMENT" ->
         IF (tags_lower \cap dimensional_tags) # {}
           THEN add(EmptyDict, form, "DIMENSIONAL_RESIDUE", Some(25), Some(4))
           ELSE add(EmptyDict, form, "VISUAL_ANOMALY", Some(20), Some(3))
    [] form = "SENSE" ->
         add(EmptyDict, form, "PSYCHIC_ECHO", Some(10), Some(8))
    [] form = "SUMMON" ->
         AddIf((tags_lower \cap arcane_tags) # {},
               add(EmptyDict, form, "DIMENSIONAL_RESIDUE", Some(70), Some(10)),
               form, "ARCANE_RESONANCE", Some(65), Some(8))
    [] OTHER -> EmptyDict

\* Step A: form-driven base (lines 452-476)
StepA(form, tags_lower) ==
  CASE form \in {"PROJECTILE", "BEAM"} ->
         LET a == add(EmptyDict, form, "VISUAL_ANOMALY", None, None)
             b == AddIf((tags_lower \cap em_tags) # {}, a, form, "EM_SPIKE", None, None)
         IN AddIf((tags_lower \cap thermal_tags) # {}, b, form, "THERMAL_BLOOM", None, None)
    [] form \in {"ZONE", "AURA"} ->
         add(EmptyDict, form, "VISUAL_ANOMALY", None, None)
    [] form = "TOUCH" ->
         IF (tags_lower \cap bio_tags) # {}
           THEN add(EmptyDict, form, "BIO_MARKER", Some(12), Some(2))
           ELSE add(EmptyDict, form, "VISUAL_ANOMALY", Some(10), Some(1))
    [] form = "MOVEMENT" ->
         IF (tags_lower \cap dimensional_tags) # {}
           THEN add(EmptyDict, form, "DIMENSIONAL_RESIDUE", Some(25), Some(4))
           ELSE add(EmptyDict, form, "VISUAL_ANOMALY", Some(20), Some(3))
    [] form = "SENSE" ->
         add(EmptyDict, form, "PSYCHIC_ECHO", Some(10), Some(8))
    [] form = "SUMMON" ->
         AddIf((tags_lower \cap arcane_tags) # {},
               add(EmptyDict, form, "DIMENSIONAL_RESIDUE", Some(70), Some(10)),
               form, "ARCANE_RESONANCE", Some(65), Some(8))
    [] OTHER -> EmptyDict

\* extras with the biological entry moved to the head of the list
extras_BioFirst ==
  << <<bio_tags, "BIO_MARKER">>,
     <<visual_tags, "VISUAL_ANOMALY">>,
     <<em_tags, "EM_SPIKE">>,
     <<thermal_tags, "THERMAL_BLOOM">>,
     <<acoustic_tags, "ACOUSTIC_SHOCK">>,
     <<chemical_tags, "CHEMICAL_RESIDUE">>,
     <<psychic_tags, "PSYCHIC_ECHO">>,
     <<dimensional_tags, "DIMENSIONAL_RESIDUE">>,
     <<grav_tags, "GRAVITIC_DISTURBANCE">>,
     <<arcane_tags, "ARCANE_RESONANCE">>,
     <<causal_tags, "CAUSAL_IMPRINT">>,
     <<kinetic_tags, "KINETIC_STRESS">>,
     <<radiation_tags, "RADIATION_TRACE">> >>

extras ==
  << <<visual_tags, "VISUAL_ANOMALY">>,
     <<em_tags, "EM_SPIKE">>,
     <<thermal_tags, "THERMAL_BLOOM">>,
     <<acoustic_tags, "ACOUSTIC_SHOCK">>,
     <<chemical_tags, "CHEMICAL_RESIDUE">>,
     <<bio_tags, "BIO_MARKER">>,
     <<psychic_tags, "PSYCHIC_ECHO">>,
     <<dimensional_tags, "DIMENSIONAL_RESIDUE">>,
     <<grav_tags, "GRAVITIC_DISTURBANCE">>,
     <<arcane_tags, "ARCANE_RESONANCE">>,
     <<causal_tags, "CAUSAL_IMPRINT">>,
     <<kinetic_tags, "KINETIC_STRESS">>,
     <<radiation_tags, "RADIATION_TRACE">> >>

\* the test without `sig_type not in signatures`
ExtraApplies_AnyMatch(signatures, tags_lower, tag_set, sig_type) ==
  (tags_lower \cap tag_set) # {}

\* `if tags_lower & tag_set and sig_type not in signatures`
ExtraApplies(signatures, tags_lower, tag_set, sig_type) ==
  (tags_lower \cap tag_set) # {} /\ sig_type \notin DOMAIN signatures

RECURSIVE StepB(_, _, _, _, _)
\* Step B: the loop over extras from index i on, with `added` additions so far
StepB(signatures, form, tags_lower, i, added) ==
  IF i > Len(extras) \/ added >= 2 THEN signatures
  ELSE IF ExtraApplies(signatures, tags_lower, extras[i][1], extras[i][2])
    THEN StepB(add(signatures, form, extras[i][2], None, None), form, tags_lower,
               i + 1, added + 1)
  ELSE StepB(signatures, form, tags_lower, i + 1, added)

\* Step C: hard fallback
StepC(signatures, form) ==
  IF DOMAIN signatures = {}
    THEN add(signatures, form, "VISUAL_ANOMALY", Some(5), Some(1))
    ELSE signatures

\* SignaturesFor without the PASSIVE short-circuit
SignaturesFor_NoPassiveCheck(form, tags_lower) ==
  StepC(StepB(StepA(form, tags_lower), form, tags_lower, 1, 0), form)

\* the signatures dict of one expression (lines 436-504)
SignaturesFor(form, tags_lower) ==
  IF form = "PASSIVE" THEN EmptyDict
  ELSE StepC(StepB(StepA(form, tags_lower), form, tags_lower, 1, 0), form)

\* SignatureRow that stores the first type of the vocabulary for every row
SignatureRow_WrongType(expr_id, sig_type, v) ==
  [expression_id |-> expr_id, signature_type |-> "VISUAL_ANOMALY",
   strength |-> v[1], persistence_turns |-> v[2]]

SignatureRow(expr_id, sig_type, v) ==
  [expression_id |-> expr_id, signature_type |-> sig_type,
   strength |-> v[1], persistence_turns |-> v[2]]

\* ------------------------------------------------- 4) acquisition profiles
Rule(tags, oclass, osub, channel, event, w) ==
  [match_tags |-> tags, origin_class |-> oclass, origin_subtype |-> osub,
   delivery_channel |-> channel, event_kind |-> event, rarity_weight |-> w]

ORIGIN_RULES ==
  << Rule({"tech", "technology", "robot", "cyber", "armour", "armor", "ai", "nanotech"},
          "FORGED", "TECHNOLOGICAL", "DEVICE", "CRAFTING", 70),
     Rule({"magic", "occult", "curse", "demon", "spell", "ritual"},
          "BOUND", "COVENANT", "CONTRACT", "RITUAL", 60),
     Rule({"artifact", "artefact", "relic", "ring", "weapon", "amulet"},
          "BOUND", "ARTEFACT", "ITEM", "DISCOVERY", 60),
     Rule({"mutation", "genetic", "dna"},
          "ASCENDANT", "GENETIC", "BIOLOGY", "PUBERTY", 60),
     Rule({"alien", "extraterrestrial", "space"},
          "ASCENDANT", "XENOBIOLOGICAL", "BIOLOGY", "BIRTH", 40),
     Rule({"radiation", "chemical", "experiment", "serum"},
          "ALTERED", "EXPOSURE", "ACCIDENT", "LAB_ACCIDENT", 60),
     Rule({"symbiote", "parasite", "infection"},
          "ALTERED", "INFESTATION", "ACCIDENT", "INFECTION", 55) >>

\* `sub in k` for the lowercase kinds that occur in the catalog
KindContains(k, sub) ==
  <<k, sub>> \in { <<"mobility", "mob">>, <<"mind", "mind">>, <<"movement", "move">>,
                   <<"psychic", "psy">>, <<"info", "info">>,
                   <<"mind-mover", "mind">>, <<"mind-mover", "move">> }

\* FallbackProfiles with the mind keywords tried before the mobility keywords
FallbackProfiles_MindFirst(kind) ==
  IF KindContains(kind, "mind") \/ KindContains(kind, "psy")
       \/ KindContains(kind, "info")
    THEN << Rule({}, "ASCENDANT", "GENETIC", "BIOLOGY", "STRESS_AWAKENING", 30),
            Rule({}, "BOUND", "COVENANT", "CONTRACT", "RITUAL", 20) >>
  ELSE IF KindContains(kind, "mob") \/ KindContains(kind, "move")
    THEN << Rule({}, "FORGED", "TECHNOLOGICAL", "DEVICE", "CRAFTING", 30),
            Rule({}, "ALTERED", "EXPOSURE", "ACCIDENT", "COSMIC_CONTACT", 20) >>
  ELSE << Rule({}, "ALTERED", "EXPOSURE", "ACCIDENT", "LAB_ACCIDENT", 30),
          Rule({}, "ASCENDANT", "GENETIC", "BIOLOGY", "PUBERTY", 20) >>

\* the fallback list by kind (lines 555-566)
FallbackProfiles(kind) ==
  IF KindContains(kind, "mob") \/ KindContains(kind, "move")
    THEN << Rule({}, "FORGED", "TECHNOLOGICAL", "DEVICE", "CRAFTING", 30),
            Rule({}, "ALTERED", "EXPOSURE", "ACCIDENT", "COSMIC_CONTACT", 20) >>
  ELSE IF KindContains(kind, "mind") \/ KindContains(kind, "psy")
          \/ KindContains(kind, "info")
    THEN << Rule({}, "ASCENDANT", "GENETIC", "BIOLOGY", "STRESS_AWAKENING", 30),
            Rule({}, "BOUND", "COVENANT", "CONTRACT", "RITUAL", 20) >>
  ELSE << Rule({}, "ALTERED", "EXPOSURE", "ACCIDENT", "LAB_ACCIDENT", 30),
          Rule({}, "ASCENDANT", "GENETIC", "BIOLOGY", "PUBERTY", 20) >>

\* the rules whose trigger set intersects the tags, in table order
MatchingRules(tags) ==
  SelectSeq(ORIGIN_RULES, LAMBDA r : (tags \cap r.match_tags) # {})

\* SelectProfiles that truncates the matches in table order
SelectProfiles_Unsorted(kind, tags, max_profiles_per_power) ==
  LET matched == MatchingRules(tags)
      matches == IF matched = <<>> THEN FallbackProfiles(kind) ELSE matched
  IN Take(matches, max_profiles_per_power)

\* matches = sorted(...)[:max_profiles_per_power] (lines 547-568)
SelectProfiles(kind, tags, max_profiles_per_power) ==
  LET matched == MatchingRules(tags)
      matches == IF matched = <<>> THEN FallbackProfiles(kind) ELSE matched
  IN Take(SortByWeightDesc(matches), max_profiles_per_power)

stability_profile(oclass, osub) ==
  IF oclass = "BOUND" /\ osub = "COVENANT" THEN "CORRUPTING"
  ELSE IF oclass = "BOUND" /\ osub = "ARTEFACT" THEN "DEPENDENT"
  ELSE IF oclass = "ALTERED" THEN "DRIFTING"
  ELSE "STABLE"

AcqId(power_id, r) ==
  stable_id(<<power_id, r.origin_class, r.origin_subtype, r.delivery_channel,
              r.event_kind>>)

ProfileRow(power_id, r) ==
  [acq_id |-> AcqId(power_id, r), power_id |-> power_id,
   origin_class |-> r.origin_class, origin_subtype |-> r.origin_subtype,
   delivery_channel |-> r.delivery_channel,
   acquisition_event_kind |-> r.event_kind, rarity_weight |-> r.rarity_weight,
   stability_profile |-> stability_profile(r.origin_class, r.origin_subtype),
   is_enabled |-> TRUE]

\* ================================================================ state
VARIABLES
  Superpower4,   \* the kind:* tags of the tags column, as rows <<rowid, tag>>
  power_tag,     \* the rows <<power_id, tag>> of power_tag
  disk,          \* the committed contents of the tables populate_db owns
  pc,            \* <<phase, status>>: where the process is in main, or how it ended
  cap,           \* max_per_power and max_profiles_per_power of the runs
  phaseStart,    \* disk as it was when the phase that failed began
  lostWrites,    \* whether the phase that failed had executed changes
  report,        \* what validate printed last: <<no_expr, no_acq>>
  lastRun,       \* the outputs of the last completed run over the present input
  accForm,       \* form of the expression whose signatures are being accumulated
  accSignatures, \* the signatures dict of that expression
  accLast,       \* the last call of add on that dict, and the entry it found
  stderr,        \* the exception that was raised last, if one was
  schema,        \* the tables of the database, and the shape of persona_power
  schemaStart,   \* schema as it was when the tool that ran last began
  attempt,       \* the last INSERT or UPDATE a client tried on persona_power
  boundBefore    \* the persona_power rows stored when the pipeline run began

vars ==
  <<Superpower4, power_tag, disk, pc, cap, phaseStart, lostWrites, report, lastRun,
    accForm, accSignatures, accLast, stderr, schema, schemaStart, attempt,
    boundBefore>>

schemaVars == <<schema, schemaStart, attempt, boundBefore>>

accVars == <<accForm, accSignatures, accLast>>

inputVars == <<Superpower4, power_tag>>

EmptyTables ==
  [expression_template |-> << >>, power_expression |-> {},
   power_expression_text |-> {}, power_expression_cost |-> EmptyBag,
   power_expression_signature |-> EmptyBag, power_acquisition_profile |-> {},
   persona_power |-> {}]

\* the names without the tables that no phase or only the last phase uses
MainRequired_Short ==
  << "Superpower4", "power_tag", "expression_template",
     "power_expression", "power_expression_text", "power_expression_cost",
     "power_expression_signature" >>

\* the names main passes to require_tables, in list order
MainRequired ==
  << "Superpower4", "power_tag", "power_text", "expression_template",
     "power_expression", "power_expression_text", "power_expression_cost",
     "power_expression_signature", "power_acquisition_profile" >>

\* require_tables: the list `missing`; it raises when the list is not empty
require_tables(tables, names) == SelectSeq(names, LAMBDA n : n \notin tables)

\* RuntimeError(f"Missing required tables: {missing}")
MissingTables(missing) ==
  [error |-> "RuntimeError: Missing required tables", detail |-> missing]

\* a database with the tables of the engine and no persona_power
FullSchema ==
  [tables |-> { "Superpower4", "power_tag", "power_text", "expression_template",
                "power_expression", "power_expression_text", "power_expression_cost",
                "power_expression_signature", "power_acquisition_profile" },
   persona_columns |-> {}, persona_triggers |-> FALSE]

\* no statement on persona_power has been tried
NoAttempt == [op |-> "none", row |-> << >>]

RECURSIVE SubsetsUpTo(_, _)
\* the subsets of S with at most n elements
SubsetsUpTo(S, n) ==
  IF n = 0 THEN {{}}
  ELSE LET smaller == SubsetsUpTo(S, n - 1)
       IN smaller \cup {s \cup {x} : s \in smaller, x \in S}

KindTags == {t \in TagUniverse : IsKindTag(t)}

\* The input rows a catalog may hold.  Of the tags column of Superpower4 only
\* the kind:* tags are kept: load_powers passes the column to _extract_kind
\* and to nothing else.
InputRows ==
  {<<"power_tag", p, t>> : p \in TaggedPowers, t \in TagUniverse}
    \cup {<<"Superpower4", p, t>> : p \in TaggedPowers, t \in KindTags}

\* load_power_tags: tags_by_power.get(power_id, set())
load_power_tags(rows, power_id) == {r[2] : r \in {x \in rows : x[1] = power_id}}

\* the kinds that load_powers, followed by `if not kind: kind =
\* _extract_kind(tags)`, may give a power
KindsOf(s4, rows, power_id) ==
  LET fromColumn == ExtractKindResults(load_power_tags(s4, power_id))
  IN (fromColumn \ {""})
       \cup (IF "" \in fromColumn
               THEN ExtractKindResults(load_power_tags(rows, power_id)) ELSE {})

\* one kind per power, as one process computes it
KindAssignments(s4, rows) ==
  {k \in [PowerIds -> {""} \cup {e[2] : e \in KindTable}] :
     \A p \in PowerIds : k[p] \in KindsOf(s4, rows, p)}

\* the process has raised nothing
NoError == [error |-> "", detail |-> << >>]

Error(name) == [error |-> name, detail |-> << >>]

NoCall == [calls |-> 0, sig_type |-> "", strength |-> 0, persistence |-> 0, prev |-> << >>]

NoRun == [valid |-> FALSE, expression_ids |-> {}, acq_ids |-> {},
          counts |-> <<0, 0, 0, 0, 0, 0>>]

Init ==
  /\ \E rows \in SubsetsUpTo(InputRows, MaxTagRows) :
       /\ power_tag = {<<r[2], r[3]>> : r \in {x \in rows : x[1] = "power_tag"}}
       /\ Superpower4 = {<<r[2], r[3]>> : r \in {x \in rows : x[1] = "Superpower4"}}
  /\ disk = EmptyTables
  /\ pc = <<"main", "idle">>
  /\ cap \in 1..MaxCap
  /\ phaseStart = EmptyTables
  /\ lostWrites = FALSE
  /\ report = <<0, 0>>
  /\ lastRun = NoRun
  /\ accForm = "TOUCH"
  /\ accSignatures = EmptyDict
  /\ accLast = NoCall
  /\ stderr = NoError
  /\ schema = FullSchema
  /\ schemaStart = FullSchema
  /\ attempt = NoAttempt
  /\ boundBefore = {}

\* ------------------------------------------------------------ phase bodies
\* the powers in rowid order (load_powers)
PowerSeq == [i \in 1..Cardinality(PowerIds) |-> i]

TemplateRow(t) ==
  [template_id |-> t.template_id, kind_match |-> t.kind_match, tags_any |-> t.tags_any,
   form |-> t.form, delivery |-> t.delivery,
   constraints |-> json_dumps(t.constraints),
   rarity_weight |-> t.rarity_weight, is_enabled |-> TRUE]

RECURSIVE InsertTemplates(_, _)
\* INSERT OR REPLACE of each template; the table is kept in rowid order
InsertTemplates(table, templates) ==
  IF templates = <<>> THEN table
  ELSE LET row == TemplateRow(Head(templates))
       IN InsertTemplates(
            Append(SelectSeq(table, LAMBDA r : r.template_id # row.template_id), row),
            Tail(templates))

\* SELECT ... FROM expression_template WHERE is_enabled = 1
load_expression_templates(table) ==
  LET enabled == SelectSeq(table, LAMBDA r : r.is_enabled)
  IN [i \in 1..Len(enabled) |-> LoadedTemplate(enabled[i])]

\* the two DELETE statements without the foreign-key actions
DeleteExpressions_NoCascade(v) ==
  [v EXCEPT !.power_expression_text = {}, !.power_expression = {}]

\* DELETE FROM power_expression_text; DELETE FROM power_expression.  With
\* foreign keys on, the rows that reference a deleted expression ON DELETE
\* CASCADE go with it.
DeleteExpressions(v) ==
  [v EXCEPT !.power_expression_text = {}, !.power_expression = {},
            !.power_expression_cost = EmptyBag,
            !.power_expression_signature = EmptyBag,
            !.persona_power = {}]

RECURSIVE ExpressionLoop(_, _, _, _, _, _)
\* the loop `for power_id, power_name, kind in powers` of generate_power_expressions
ExpressionLoop(v, powers, kinds, rows, templates, max_per_power) ==
  IF powers = <<>> THEN v
  ELSE LET power_id == Head(powers)
           matches == SelectMatches(kinds[power_id], load_power_tags(rows, power_id),
                                    templates, max_per_power)
           exprs == [i \in 1..Len(matches) |-> ExpressionRow(power_id, matches[i])]
           texts == [i \in 1..Len(matches) |-> TextRow(power_id, matches[i])]
       IN ExpressionLoop(
            [v EXCEPT !.power_expression = UpsertAll(@, exprs, "expression_id"),
                      !.power_expression_text = UpsertAll(@, texts, "expression_id")],
            Tail(powers), kinds, rows, templates, max_per_power)

RECURSIVE BagOfSeq(_)
\* plain INSERTs of the rows of a sequence into an empty table without a key
BagOfSeq(rows) ==
  IF rows = <<>> THEN EmptyBag ELSE SetToBag({Head(rows)}) (+) BagOfSeq(Tail(rows))

RECURSIVE CostLoop(_, _)
\* the loop over the enabled expressions of generate_power_expression_costs
CostLoop(exprs, rows) ==
  IF exprs = {} THEN EmptyBag
  ELSE LET e == CHOOSE x \in exprs : TRUE
           costs == CostsFor(e.form, json_loads(e.constraints),
                             load_power_tags(rows, e.power_id))
       IN BagOfSeq([i \in 1..Len(costs) |-> CostRow(e.expression_id, costs[i])])
            (+) CostLoop(exprs \ {e}, rows)

EnabledExpressions(v) == {e \in v.power_expression : e.is_enabled}

RECURSIVE DictRows(_, _, _)
\* for sig_type, (strength, persistence) in signatures.items(): INSERT
DictRows(expr_id, signatures, types) ==
  IF types = {} THEN EmptyBag
  ELSE LET t == CHOOSE x \in types : TRUE
       IN SetToBag({SignatureRow(expr_id, t, signatures[t])})
            (+) DictRows(expr_id, signatures, types \ {t})

RECURSIVE SignatureLoop(_, _)
\* the loop over the enabled expressions of generate_power_expression_signatures
SignatureLoop(exprs, rows) ==
  IF exprs = {} THEN EmptyBag
  ELSE LET e == CHOOSE x \in exprs : TRUE
           signatures == SignaturesFor(e.form, load_power_tags(rows, e.power_id))
       IN DictRows(e.expression_id, signatures, DOMAIN signatures)
            (+) SignatureLoop(exprs \ {e}, rows)

RECURSIVE ProfileLoop(_, _, _, _, _)
\* the loop `for power_id, power_name, kind in powers` of generate_acquisition_profiles
ProfileLoop(table, powers, kinds, rows, max_profiles_per_power) ==
  IF powers = <<>> THEN table
  ELSE LET power_id == Head(powers)
           matches == SelectProfiles(kinds[power_id], load_power_tags(rows, power_id),
                                     max_profiles_per_power)
           profiles == [i \in 1..Len(matches) |-> ProfileRow(power_id, matches[i])]
       IN ProfileLoop(UpsertAll(table, profiles, "acq_id"), Tail(powers), kinds, rows,
                      max_profiles_per_power)

\* validate: the two counts it prints
CoverageCounts(v) ==
  << Cardinality({p \in PowerIds :
        ~ \E e \in v.power_expression : e.power_id = p /\ e.is_enabled}),
     Cardinality({p \in PowerIds :
        ~ \E a \in v.power_acquisition_profile : a.power_id = p /\ a.is_enabled}) >>

\* what a finished run leaves in the output tables: ids and row counts
Outputs(v) ==
  [valid |-> TRUE,
   expression_ids |-> {e.expression_id : e \in v.power_expression},
   acq_ids |-> {a.acq_id : a \in v.power_acquisition_profile},
   counts |-> << Len(v.expression_template), Cardinality(v.power_expression),
                 Cardinality(v.power_expression_text),
                 BagCardinality(v.power_expression_cost),
                 BagCardinality(v.power_expression_signature),
                 Cardinality(v.power_acquisition_profile) >>]

\* ------------------------------------------------------------ transactions
\* a phase that does not open a transaction
Begin_Missing(in_transaction) == in_transaction

\* conn.execute("BEGIN;"): the connection is in a transaction afterwards
Begin(in_transaction) == TRUE

\* what is durable once the process has ended without COMMIT: inside a
\* transaction what was committed before, outside of one every statement's result
Durable(in_transaction, committed, working) ==
  IF in_transaction THEN committed ELSE working

\* One generation phase: BEGIN, the DELETE statements (giving `deleted`), the
\* INSERT loop (giving `filled`) and COMMIT; or an exception raised after
\* BEGIN by a statement of the phase, which nothing in populate_db catches:
\* the process ends with the transaction open.
Phase(phase, next, deleted, filled) ==
  /\ pc = <<phase, "ready">>
  /\ \/ /\ disk' = filled
        /\ pc' = next
        /\ UNCHANGED <<phaseStart, lostWrites, stderr>>
     \/ \E working \in {deleted, filled} :
          /\ disk' = Durable(Begin(FALSE), disk, working)
          /\ pc' = <<phase, "failed">>
          /\ phaseStart' = disk
          /\ lostWrites' = (working # disk)
          /\ stderr' = Error("sqlite3.Error")
  /\ UNCHANGED <<inputVars, cap, report, lastRun, accVars, schemaVars>>

\* A phase in which a statement of the loop raises `name` after BEGIN and the
\* DELETE statements, with the table contents `working` written so far.
Raise(phase, name, working) ==
  /\ pc = <<phase, "ready">>
  /\ disk' = Durable(Begin(FALSE), disk, working)
  /\ pc' = <<phase, "failed">>
  /\ phaseStart' = disk
  /\ lostWrites' = (working # disk)
  /\ stderr' = Error(name)
  /\ UNCHANGED <<inputVars, cap, report, lastRun, accVars, schemaVars>>

\* require_tables at the head of a phase raises: no statement of the phase runs
Abort(at, missing) ==
  /\ pc = at
  /\ pc' = <<at[1], "failed">>
  /\ phaseStart' = disk
  /\ lostWrites' = FALSE
  /\ stderr' = MissingTables(missing)
  /\ UNCHANGED <<inputVars, disk, cap, report, lastRun, accVars, schemaVars>>

\* a phase behind its require_tables(conn, names)
Requiring(at, names, body) ==
  IF require_tables(schema.tables, names) # << >>
    THEN Abort(at, require_tables(schema.tables, names))
    ELSE body

\* ----------------------------------------------------------------- actions
\* main up to the first phase: connect, PRAGMA foreign_keys = ON, require_tables
Main ==
  /\ pc[2] \in {"idle", "failed"}
  /\ LET missing == require_tables(schema.tables, MainRequired)
     IN IF missing = << >>
          THEN /\ pc' = <<"seed", "ready">>
               /\ phaseStart' = EmptyTables
               /\ stderr' = NoError
          ELSE /\ pc' = <<"main", "failed">>
               /\ phaseStart' = disk
               /\ stderr' = MissingTables(missing)
  /\ lostWrites' = FALSE
  /\ schemaStart' = schema
  /\ attempt' = NoAttempt
  /\ boundBefore' = disk.persona_power
  /\ UNCHANGED <<inputVars, disk, cap, report, lastRun, accVars, schema>>

seed_expression_templates ==
  LET deleted == [disk EXCEPT !.expression_template = << >>]
  IN Requiring(<<"seed", "ready">>, <<"expression_template">>,
       Phase("seed", <<"expr", "ready">>, deleted,
             [deleted EXCEPT !.expression_template = InsertTemplates(@, SeedTemplates)]))

generate_power_expressions ==
  \E kinds \in KindAssignments(Superpower4, power_tag) :
    LET deleted == DeleteExpressions(disk)
    IN Requiring(<<"expr", "ready">>,
         <<"power_expression", "power_expression_text", "Superpower4", "power_tag",
           "expression_template">>,
         Phase("expr", <<"cost", "ready">>, deleted,
               ExpressionLoop(deleted, PowerSeq, kinds, power_tag,
                              load_expression_templates(disk.expression_template), cap)))

\* json.loads(constraints_json or "{}") at the head of the loop body is not
\* guarded: a row whose text is not JSON raises json.JSONDecodeError there.
generate_power_expression_costs ==
  LET deleted == [disk EXCEPT !.power_expression_cost = EmptyBag]
  IN Requiring(<<"cost", "ready">>,
       <<"power_expression_cost", "power_expression", "power_tag">>,
       IF \E e \in EnabledExpressions(deleted) : ~ JsonParses(e.constraints)
         THEN Raise("cost", "json.JSONDecodeError", deleted)
         ELSE Phase("cost", <<"sig", "ready">>, deleted,
                    [deleted EXCEPT !.power_expression_cost =
                       @ (+) CostLoop(EnabledExpressions(deleted), power_tag)]))

generate_power_expression_signatures ==
  LET deleted == [disk EXCEPT !.power_expression_signature = EmptyBag]
  IN Requiring(<<"sig", "ready">>,
       <<"power_expression_signature", "power_expression", "power_tag">>,
       Phase("sig", <<"acq", "ready">>, deleted,
             [deleted EXCEPT !.power_expression_signature =
                @ (+) SignatureLoop(EnabledExpressions(deleted), power_tag)]))

generate_acquisition_profiles ==
  \E kinds \in KindAssignments(Superpower4, power_tag) :
    Requiring(<<"acq", "ready">>,
      <<"power_acquisition_profile", "Superpower4", "power_tag">>,
      Phase("acq", <<"main", "validate">>, disk,
            [disk EXCEPT !.power_acquisition_profile =
                           ProfileLoop(@, PowerSeq, kinds, power_tag, cap)]))

\* validate, conn.close() and the end of the process
validate ==
  Requiring(<<"main", "validate">>,
    <<"Superpower4", "power_expression", "power_acquisition_profile">>,
    /\ pc = <<"main", "validate">>
    /\ report' = CoverageCounts(disk)
    /\ lastRun' = Outputs(disk)
    /\ pc' = <<"main", "idle">>
    /\ boundBefore' = {}
    /\ UNCHANGED <<inputVars, disk, cap, phaseStart, lostWrites, accVars, stderr,
                   schema, schemaStart, attempt>>)

\* The upstream catalog drops a tag of a power between two runs.
UpstreamEdit ==
  /\ pc = <<"main", "idle">>
  /\ lastRun.valid
  /\ \/ \E r \in power_tag : power_tag' = power_tag \ {r} /\ UNCHANGED Superpower4
     \/ \E r \in Superpower4 : Superpower4' = Superpower4 \ {r} /\ UNCHANGED power_tag
  /\ lastRun' = NoRun
  /\ UNCHANGED <<disk, pc, cap, phaseStart, lostWrites, report, accVars, stderr,
                 schemaVars>>

\* ------------------------------------------------------ export_content_db
RUNTIME_TABLES ==
  << "Superpower4", "power_text", "power_expression", "power_expression_text",
     "power_expression_cost", "power_expression_signature",
     "power_acquisition_profile", "persona_power", "power_tag",
     "origin_event_template", "OriginClass", "OriginSubtype", "TagDictionary",
     "TaxonomyMeta" >>

\* the table lists export_db is run with: the default, and two --tables lists
TableLists ==
  { RUNTIME_TABLES,
    SelectSeq(RUNTIME_TABLES, LAMBDA n : n \in FullSchema.tables),
    SelectSeq(RUNTIME_TABLES, LAMBDA n : n \in FullSchema.tables
                                         /\ n # "power_acquisition_profile") }

\* CREATE TABLE and INSERT INTO t SELECT * FROM src.t for the tables of the list
Exported(v, names) ==
  [expression_template |->
     IF "expression_template" \in names THEN v.expression_template ELSE << >>,
   power_expression |-> IF "power_expression" \in names THEN v.power_expression ELSE {},
   power_expression_text |->
     IF "power_expression_text" \in names THEN v.power_expression_text ELSE {},
   power_expression_cost |->
     IF "power_expression_cost" \in names THEN v.power_expression_cost ELSE EmptyBag,
   power_expression_signature |->
     IF "power_expression_signature" \in names
       THEN v.power_expression_signature ELSE EmptyBag,
   power_acquisition_profile |->
     IF "power_acquisition_profile" \in names THEN v.power_acquisition_profile ELSE {},
   persona_power |-> IF "persona_power" \in names THEN v.persona_power ELSE {}]

\* export_db into a fresh destination file, which the tools are run on from
\* then on (--db).  A table of the list that the source lacks raises inside
\* the transaction: the destination is left without tables.
export_db ==
  /\ pc = <<"main", "idle">>
  /\ lastRun.valid
  /\ \E list \in TableLists :
       LET names == {list[i] : i \in 1..Len(list)}
           ok == names \subseteq schema.tables
           kept == IF ok THEN names ELSE {}
       IN /\ schema' =
               [tables |-> kept,
                persona_columns |->
                  IF "persona_power" \in kept THEN schema.persona_columns ELSE {},
                persona_triggers |-> "persona_power" \in kept /\ schema.persona_triggers]
          /\ disk' = Exported(disk, kept)
          /\ power_tag' = IF "power_tag" \in kept THEN power_tag ELSE {}
          /\ Superpower4' = IF "Superpower4" \in kept THEN Superpower4 ELSE {}
          /\ stderr' = IF ok THEN NoError
                       ELSE Error("RuntimeError: Missing table in source DB")
  /\ schemaStart' = schema
  /\ lastRun' = NoRun
  /\ phaseStart' = EmptyTables
  /\ lostWrites' = FALSE
  /\ UNCHANGED <<pc, cap, report, accVars, attempt, boundBefore>>

Next ==
  \/ Main
  \/ seed_expression_templates
  \/ generate_power_expressions
  \/ generate_power_expression_costs
  \/ generate_power_expression_signatures
  \/ generate_acquisition_profiles
  \/ validate
  \/ UpstreamEdit
  \/ export_db

Spec == Init /\ [][Next]_vars

\* ============================================================== properties
\* max_per_power and max_profiles_per_power as main passes them
MainCap == 3

Tags(p) == load_power_tags(power_tag, p)

ExpressionsOf(p) == {e \in disk.power_expression : e.power_id = p}

ProfilesOf(p) == {a \in disk.power_acquisition_profile : a.power_id = p}

\* a full run has just ended and the input is as that run read it
RunCompleted == pc = <<"main", "idle">> /\ lastRun.valid

\* the rows of a table without a key, each once
RowsOf(bag) == BagToSet(bag)

\* C1: after a full pipeline run with both caps at 3 every Superpower4 row has
\* an enabled expression and an enabled acquisition profile, whatever its
\* tags and kind, and validate reports 0 and 0.
C1_Coverage ==
  (RunCompleted /\ cap = MainCap) =>
    /\ \A p \in PowerIds :
         /\ \E e \in ExpressionsOf(p) : e.is_enabled
         /\ \E a \in ProfilesOf(p) : a.is_enabled
    /\ report = <<0, 0>>

\* a run with cap 3 has ended over a tagged power and a power without tag rows
C1_Witness ==
  /\ RunCompleted /\ cap = MainCap
  /\ \E p \in PowerIds : Tags(p) = {}
  /\ \E p \in PowerIds : "unmapped_tag" \in Tags(p)
  /\ \E p \in PowerIds : "magic" \in Tags(p)

\* C2: a second full run over unchanged entities and tags ends with the same
\* expression ids, the same acquisition ids and the same row counts in every
\* output table as the run before it.
C2_Idempotent ==
  (pc = <<"main", "validate">> /\ lastRun.valid) => Outputs(disk) = lastRun

\* C3: when a generation phase fails between its BEGIN and its COMMIT, the
\* stored tables are exactly what they were when the phase began: the old
\* rows are all there and none of the new ones are.
C3_FailedPhaseLeavesPriorData ==
  pc[2] = "failed" => disk = phaseStart

\* the expression phase of a later run failed after it had deleted or
\* rewritten rows, and the expressions of the run before are stored
C3_Witness ==
  /\ pc = <<"expr", "failed">>
  /\ lostWrites
  /\ disk.power_expression # {}
  /\ disk.power_expression_text # {}

\* C4: after the acquisition phase has committed, every stored profile is one
\* the phase derives from the present entities and tags.
C4_OnlyCurrentProfiles ==
  pc = <<"main", "validate">> =>
    \A a \in disk.power_acquisition_profile :
      \E kinds \in KindAssignments(Superpower4, power_tag) :
        a \in ProfileLoop({}, PowerSeq, kinds, power_tag, cap)

\* C5: no two rows of power_expression_signature share expression_id and
\* signature_type, however often the signature phase has run.
C5_SignatureUnique ==
  LET sig == disk.power_expression_signature
  IN \A r \in RowsOf(sig) :
       /\ CopiesIn(r, sig) = 1
       /\ \A q \in RowsOf(sig) :
            (q.expression_id = r.expression_id /\ q.signature_type = r.signature_type)
              => q = r

\* the signature phase has committed again after a completed run, and an
\* expression has rows of two signature types
C5_Witness ==
  /\ pc = <<"acq", "ready">>
  /\ lastRun.valid
  /\ \E r, q \in RowsOf(disk.power_expression_signature) :
       r.expression_id = q.expression_id /\ r.signature_type # q.signature_type

\* C7: after the signature phase every enabled expression that is not
\* PASSIVE has a signature row and every enabled PASSIVE expression has none.
C7_SignatureCoverage ==
  pc = <<"acq", "ready">> =>
    \A e \in EnabledExpressions(disk) :
      LET has == \E r \in RowsOf(disk.power_expression_signature) :
                   r.expression_id = e.expression_id
      IN IF e.form = "PASSIVE" THEN ~ has ELSE has

\* the signature phase has committed over a PASSIVE expression, an
\* expression of another form and a power without tags
C7_Witness ==
  /\ pc = <<"acq", "ready">>
  /\ \E e \in EnabledExpressions(disk) : e.form = "PASSIVE"
  /\ \E e \in EnabledExpressions(disk) : e.form = "MOVEMENT"
  /\ \E e \in EnabledExpressions(disk) : e.form # "PASSIVE" /\ Tags(e.power_id) = {}

CostRowsOf(e) ==
  {r \in RowsOf(disk.power_expression_cost) : r.expression_id = e.expression_id}

CostCount(e) ==
  BagCardinality([r \in CostRowsOf(e) |-> CopiesIn(r, disk.power_expression_cost)])

\* C8: after the cost phase a PASSIVE expression has no cost row and a TOUCH
\* expression has exactly two: one resource row, FOCUS 1 if the tags of its
\* power include mind, psychic or mental and STAMINA 1 otherwise, and one
\* COOLDOWN row.
C8_CostShape ==
  pc = <<"sig", "ready">> =>
    \A e \in disk.power_expression :
      /\ e.form = "PASSIVE" => CostRowsOf(e) = {}
      /\ e.form = "TOUCH" =>
           /\ CostCount(e) = 2
           /\ Cardinality({r \in CostRowsOf(e) : r.cost_type = "COOLDOWN"}) = 1
           /\ {<<r.cost_type, r.value>> :
                 r \in {x \in CostRowsOf(e) : x.cost_type # "COOLDOWN"}}
                = IF Tags(e.power_id) \cap {"mind", "psychic", "mental"} # {}
                    THEN {<<"FOCUS", 1>>} ELSE {<<"STAMINA", 1>>}

\* the cost phase has committed over a TOUCH expression of a power with a
\* mind tag, a TOUCH expression of a power without one and a PASSIVE expression
C8_Witness ==
  /\ pc = <<"sig", "ready">>
  /\ \E e \in disk.power_expression : e.form = "TOUCH" /\ "mind" \in Tags(e.power_id)
  /\ \E e \in disk.power_expression : e.form = "TOUCH" /\ Tags(e.power_id) = {}
  /\ \E e \in disk.power_expression : e.form = "PASSIVE"

\* the tags match no template of the seeded catalog
MatchesNoAuthored(tags) ==
  \A i \in 1..Len(SeedTemplates) : SeedTemplates[i].tags_any \cap tags = {}

\* C9: with the seeded catalog and a cap of at least 2, a power whose tags
\* match no authored template gets exactly the two expressions
\* fallback_touch_neutral (TOUCH/INSTANT) and fallback_touch_followup
\* (TOUCH/TRIGGERED).
C9_FallbackPair ==
  (pc = <<"cost", "ready">> /\ cap >= 2) =>
    \A p \in PowerIds :
      MatchesNoAuthored(Tags(p)) =>
        {e.expression_id : e \in ExpressionsOf(p)}
          = {stable_id(<<p, "fallback_touch_neutral", "TOUCH", "INSTANT">>),
             stable_id(<<p, "fallback_touch_followup", "TOUCH", "TRIGGERED">>)}

\* the expression phase has committed over a power tagged unmapped_tag only
C9_Witness ==
  /\ pc = <<"cost", "ready">> /\ cap >= 2
  /\ \E p \in PowerIds :
       Tags(p) = {"unmapped_tag"} /\ Cardinality(ExpressionsOf(p)) = 2

\* the template ids of the expressions stored for p
EmittedTemplates(p) == {e.expression_id[2] : e \in ExpressionsOf(p)}

\* C10: the expressions of a power are the first `cap` candidates in the
\* order rarity weight descending, equal weights in catalog order: as many as
\* the cap allows, and every emitted candidate outranks every dropped one.
C10_TopByWeight ==
  pc = <<"cost", "ready">> =>
    \A p \in PowerIds :
      LET cands == Candidates("", Tags(p), SeedTemplates)
          E == EmittedTemplates(p)
      IN /\ E \subseteq {cands[i].template_id : i \in 1..Len(cands)}
         /\ Cardinality(E) = Min(cap, Len(cands))
         /\ \A i, j \in 1..Len(cands) :
              (cands[i].template_id \in E /\ cands[j].template_id \notin E) =>
                \/ cands[i].rarity_weight > cands[j].rarity_weight
                \/ cands[i].rarity_weight = cands[j].rarity_weight /\ i < j

\* matching weights 85, 70 and 45 with cap 2: the 85 and the 70 template are
\* emitted; and a tie of two 45 templates at the cut with cap 2
C10_Witness ==
  /\ pc = <<"cost", "ready">> /\ cap = 2
  /\ \E p \in PowerIds :
       \/ Tags(p) = {"fire", "ice"}
            /\ EmittedTemplates(p) = {"tmpl_beam_energy", "tmpl_proj_element"}
       \/ Tags(p) = {"fire", "space"}
            /\ EmittedTemplates(p) = {"tmpl_beam_energy", "tmpl_zone_element"}

FallbackIds ==
  {"fallback_touch_neutral", "fallback_projectile_element", "fallback_aura_control",
   "fallback_touch_followup"}

\* the stored, enabled templates that match the tags of p, under kind k
StoredMatches(p, k) ==
  AuthoredMatches(k, Tags(p), load_expression_templates(disk.expression_template))

\* C11: no fallback expression is emitted while an authored template that
\* matched the power is left out by the truncation, whatever the cap; and the
\* weight of every fallback is below the weight of every authored template.
C11_AuthoredPreferred ==
  pc = <<"cost", "ready">> =>
    \A p \in PowerIds :
      \A k \in KindsOf(Superpower4, power_tag, p) :
        LET authored == StoredMatches(p, k)
            ids == {authored[i].template_id : i \in 1..Len(authored)}
            fb == fallback_templates(Tags(p))
        IN /\ (EmittedTemplates(p) \cap FallbackIds # {}) => ids \subseteq EmittedTemplates(p)
           /\ \A i \in 1..Len(fb), j \in 1..Len(disk.expression_template) :
                fb[i].rarity_weight < disk.expression_template[j].rarity_weight

\* with cap 1 a power that matches one authored template of weight 45 keeps
\* it, and both fallbacks it was topped up with are cut
C11_Witness ==
  /\ pc = <<"cost", "ready">> /\ cap = 1
  /\ \E p \in PowerIds :
       Tags(p) = {"space"} /\ EmittedTemplates(p) = {"tmpl_move_space"}

\* C12: before truncation every power has at least two candidates with
\* distinct template ids (one authored match is joined by the neutral touch
\* fallback and one secondary fallback), so with a cap of at least 2 it ends
\* the expression phase with at least two expressions of distinct ids.
C12_TwoCandidates ==
  pc = <<"cost", "ready">> =>
    \A p \in PowerIds :
      \A k \in KindsOf(Superpower4, power_tag, p) :
        LET authored == StoredMatches(p, k)
            cands == Candidates(k, Tags(p),
                                load_expression_templates(disk.expression_template))
            ids == {cands[i].template_id : i \in 1..Len(cands)}
        IN /\ Cardinality(ids) >= 2
           /\ Cardinality(ids) = Len(cands)
           /\ Len(authored) = 1 =>
                /\ Cardinality(ids) = 3
                /\ authored[1].template_id \in ids
                /\ "fallback_touch_neutral" \in ids
                /\ Cardinality(ids \cap FallbackIds) = 2
           /\ cap >= 2 =>
                Cardinality({e.expression_id : e \in ExpressionsOf(p)}) >= 2

\* the expression phase has committed with cap 2 over a power with exactly
\* one authored match: the template and the neutral touch fallback are stored
C12_Witness ==
  /\ pc = <<"cost", "ready">> /\ cap = 2
  /\ \E p \in PowerIds :
       Tags(p) = {"body"}
         /\ EmittedTemplates(p) = {"tmpl_trait_body", "fallback_touch_neutral"}

\* C13: when a table the engine requires is absent, main aborts before any
\* phase runs, with an error that lists exactly the absent required tables,
\* and no output table is modified.
C13_MissingTablesAbort ==
  LET missing == { "Superpower4", "power_tag", "power_text", "expression_template",
                   "power_expression", "power_expression_text",
                   "power_expression_cost", "power_expression_signature",
                   "power_acquisition_profile" } \ schema.tables
  IN /\ missing # {} => pc \in {<<"main", "idle">>, <<"main", "failed">>}
     /\ pc = <<"main", "failed">> =>
          /\ missing # {}
          /\ stderr.error = "RuntimeError: Missing required tables"
          /\ {stderr.detail[i] : i \in 1..Len(stderr.detail)} = missing
          /\ Len(stderr.detail) = Cardinality(missing)
          /\ disk = phaseStart
     /\ stderr.error = "RuntimeError: Missing required tables" =>
          pc = <<"main", "failed">>

\* main has aborted on a database that holds generated expressions and
\* profiles but has no expression_template table
C13_Witness ==
  /\ pc = <<"main", "failed">>
  /\ "expression_template" \notin schema.tables
  /\ disk.power_expression # {}
  /\ disk.power_acquisition_profile # {}
  /\ stderr.detail = <<"expression_template">>

\* C19: a run over the input that the run before it read uses the same kind
\* for every power, also for one with several kind:* tags: it stores no
\* acquisition profile that the run before had not stored.
C19_SameKindEveryRun ==
  (pc = <<"main", "validate">> /\ lastRun.valid) =>
    {a.acq_id : a \in disk.power_acquisition_profile} \subseteq lastRun.acq_ids

\* ------------------------------------------- the accumulator add, on its own
\* The signature phase calls add with a few fixed arguments.  SpecAdd applies
\* it to every dict that calls with these types and values build.
AddTypes == {"VISUAL_ANOMALY", "BIO_MARKER"}

AddForms == {"TOUCH", "SENSE"}

AddStrengths == {None, Some(5), Some(10), Some(12)}

AddPersistences == {None, Some(1), Some(8)}

InitAdd ==
  /\ Superpower4 = {}
  /\ power_tag = {}
  /\ disk = EmptyTables
  /\ pc = <<"main", "idle">>
  /\ cap = MainCap
  /\ phaseStart = EmptyTables
  /\ lostWrites = FALSE
  /\ report = <<0, 0>>
  /\ lastRun = NoRun
  /\ accForm \in AddForms
  /\ accSignatures = EmptyDict
  /\ accLast = NoCall
  /\ stderr = NoError
  /\ schema = FullSchema
  /\ schemaStart = FullSchema
  /\ attempt = NoAttempt
  /\ boundBefore = {}

\* signatures = {} for the next expression of the loop
NextExpression ==
  /\ accLast.calls > 0
  /\ \E f \in AddForms : accForm' = f
  /\ accSignatures' = EmptyDict
  /\ accLast' = NoCall
  /\ UNCHANGED <<inputVars, disk, pc, cap, phaseStart, lostWrites, report, lastRun,
                 stderr, schemaVars>>

\* one call add(sig_type, strength, persistence)
AddCall ==
  /\ accLast.calls < MaxAdds
  /\ \E t \in AddTypes, s \in AddStrengths, p \in AddPersistences :
       /\ accSignatures' = add(accSignatures, accForm, t, s, p)
       /\ accLast' =
            [calls |-> accLast.calls + 1, sig_type |-> t,
             strength |-> IF s = None THEN form_strength(accForm) ELSE s[1],
             persistence |-> IF p = None THEN form_persistence(accForm) ELSE p[1],
             prev |-> IF t \in DOMAIN accSignatures THEN <<accSignatures[t]>> ELSE << >>]
  /\ UNCHANGED <<accForm, inputVars, disk, pc, cap, phaseStart, lostWrites, report,
                 lastRun, stderr, schemaVars>>

NextAdd == AddCall \/ NextExpression

SpecAdd == InitAdd /\ [][NextAdd]_vars

\* C6: when a signature type is contributed a second time, the stored
\* strength is the larger of the two strengths, not the smaller one and not
\* their sum, and the stored persistence is the larger of the two persistences.
C6_MergeByMax ==
  accLast.prev # << >> =>
    LET old == accLast.prev[1]
        now == accSignatures[accLast.sig_type]
    IN /\ now[1] >= old[1] /\ now[1] >= accLast.strength
       /\ now[1] \in {old[1], accLast.strength}
       /\ now[2] >= old[2] /\ now[2] >= accLast.persistence
       /\ now[2] \in {old[2], accLast.persistence}

\* a type was contributed with strengths s1 < s2, and the second
\* contribution had the smaller persistence: s2 and the first persistence stay
C6_Witness ==
  /\ accLast.prev # << >>
  /\ accLast.prev[1][1] < accLast.strength
  /\ accLast.prev[1][2] > accLast.persistence
  /\ accSignatures[accLast.sig_type] = <<accLast.strength, accLast.prev[1][2]>>

\* ------------------------------------ runs over a catalog with every kind
\* The tags of a catalog whose entities carry any of the kind:* tags, and of
\* the other tags those that origin rules list, and one that no rule lists.
AcqTagUniverse ==
  {"tech", "magic", "space", "radiation", "unmapped_tag"}
    \cup {e[1] : e \in KindTable}

InitAcq ==
  /\ power_tag \in SubsetsUpTo({<<p, t>> : p \in TaggedPowers, t \in AcqTagUniverse},
                               MaxTagRows)
  /\ Superpower4 = {}
  /\ disk = EmptyTables
  /\ pc = <<"main", "idle">>
  /\ cap \in 1..MaxCap
  /\ phaseStart = EmptyTables
  /\ lostWrites = FALSE
  /\ report = <<0, 0>>
  /\ lastRun = NoRun
  /\ accForm = "TOUCH"
  /\ accSignatures = EmptyDict
  /\ accLast = NoCall
  /\ stderr = NoError
  /\ schema = FullSchema
  /\ schemaStart = FullSchema
  /\ attempt = NoAttempt
  /\ boundBefore = {}

NextAcq ==
  \/ Main
  \/ seed_expression_templates
  \/ generate_power_expressions
  \/ generate_power_expression_costs
  \/ generate_power_expression_signatures
  \/ generate_acquisition_profiles
  \/ validate

SpecAcq == InitAcq /\ [][NextAcq]_vars

\* what a profile row says about the origin, and its weight
ProfileTuple(a) ==
  <<a.origin_class, a.origin_subtype, a.delivery_channel, a.acquisition_event_kind,
    a.rarity_weight>>

ProfileTuples(rows) == {ProfileTuple(a) : a \in rows}

\* the acquisition phase commits in this step
AcqCommits == pc = <<"acq", "ready">> /\ pc' = <<"main", "validate">>

\* the rows of power p in the table after the step
ProfilesAfter(p) == {a \in disk'.power_acquisition_profile : a.power_id = p}

\* the indices of the origin rules whose trigger set intersects tags
MatchingIndices(tags) ==
  {i \in 1..Len(ORIGIN_RULES) : ORIGIN_RULES[i].match_tags \cap tags # {}}

\* the two fallback profiles the claim names for a kind
NamedFallback(k) ==
  IF k \in {"mobility", "movement", "mind-mover"}
    THEN { <<"FORGED", "TECHNOLOGICAL", "DEVICE", "CRAFTING", 30>>,
           <<"ALTERED", "EXPOSURE", "ACCIDENT", "COSMIC_CONTACT", 20>> }
  ELSE IF k \in {"mind", "psychic", "info"}
    THEN { <<"ASCENDANT", "GENETIC", "BIOLOGY", "STRESS_AWAKENING", 30>>,
           <<"BOUND", "COVENANT", "CONTRACT", "RITUAL", 20>> }
  ELSE { <<"ALTERED", "EXPOSURE", "ACCIDENT", "LAB_ACCIDENT", 30>>,
         <<"ASCENDANT", "GENETIC", "BIOLOGY", "PUBERTY", 20>> }

\* C17: for a power whose tags intersect no origin rule, the acquisition phase
\* with a cap of at least 2 stores exactly the two fallback profiles of its
\* kind, with weights 30 and 20 (mob/move first, then mind/psy/info, then the
\* generic pair); for a power that matches a rule it stores no fallback profile.
C17_KindFallback ==
  [][ (AcqCommits /\ cap >= 2) =>
        \A p \in PowerIds :
          LET before == ProfileTuples(ProfilesOf(p))
              after  == ProfileTuples(ProfilesAfter(p))
          IN IF MatchingIndices(Tags(p)) = {}
               THEN \E k \in KindsOf(Superpower4, power_tag, p) :
                      /\ NamedFallback(k) \subseteq after
                      /\ (after \ NamedFallback(k)) \subseteq before
                      /\ Cardinality(ProfilesAfter(p)) = Cardinality(after)
               ELSE \A t \in after \ before : t[5] \notin {30, 20} ]_vars

\* a run with cap 2 has stored the mobility pair for a power whose one kind
\* names both a mind and a movement keyword, and the generic pair for the
\* power without tags
C17_Witness ==
  /\ pc = <<"main", "validate">> /\ cap >= 2
  /\ Tags(1) = {"kind:mind-mover"}
  /\ ProfileTuples(ProfilesOf(1)) = NamedFallback("mobility")
  /\ ProfileTuples(ProfilesOf(2)) = NamedFallback("")

\* the tuples of the first n matching rules: rarity weight descending, equal
\* weights in rule-table order
IsFirstN(S, tags, n) ==
  LET M == MatchingIndices(tags)
  IN /\ S \subseteq M
     /\ Cardinality(S) = Min(n, Cardinality(M))
     /\ \A i \in S, j \in M \ S :
          \/ ORIGIN_RULES[i].rarity_weight > ORIGIN_RULES[j].rarity_weight
          \/ ORIGIN_RULES[i].rarity_weight = ORIGIN_RULES[j].rarity_weight /\ i < j

RuleTuple(i) ==
  <<ORIGIN_RULES[i].origin_class, ORIGIN_RULES[i].origin_subtype,
    ORIGIN_RULES[i].delivery_channel, ORIGIN_RULES[i].event_kind,
    ORIGIN_RULES[i].rarity_weight>>

\* the phase generates for p the rules of the index set S and nothing else
GeneratesExactly(p, S) ==
  LET before == ProfilesOf(p)
      after  == ProfilesAfter(p)
      rules  == {RuleTuple(i) : i \in S}
  IN /\ rules \subseteq ProfileTuples(after)
     /\ (after \ before) \subseteq {a \in after : ProfileTuple(a) \in rules}
     /\ Cardinality({a.acq_id : a \in {x \in after : ProfileTuple(x) \in rules}})
          = Cardinality(S)

\* C18 as stated: for every power and cap N the generated profiles are
\* exactly the first N matching origin rules, min(N, number of matching
\* rules) of them, each with its own acq_id.
C18_FirstNRules ==
  [][ AcqCommits =>
        \A p \in PowerIds :
          \E S \in SUBSET MatchingIndices(Tags(p)) :
            IsFirstN(S, Tags(p), cap) /\ GeneratesExactly(p, S) ]_vars

\* C18, amended: for every power that matches at least one origin rule and
\* every cap N the generated profiles are exactly the first N matching rules
\* (weight descending, ties in table order), min(N, number of matching rules)
\* of them, each with its own acq_id.
C18_FirstNRules_Matched ==
  [][ AcqCommits =>
        \A p \in PowerIds :
          MatchingIndices(Tags(p)) # {} =>
            \E S \in SUBSET MatchingIndices(Tags(p)) :
              IsFirstN(S, Tags(p), cap) /\ GeneratesExactly(p, S) ]_vars

\* with cap 1 a power tagged space (weight 40, fifth rule) and radiation
\* (weight 60, sixth rule) has the LAB_ACCIDENT profile only
C18_Witness ==
  /\ pc = <<"main", "validate">> /\ cap = 1
  /\ Tags(1) = {"space", "radiation"}
  /\ ProfileTuples(ProfilesOf(1))
       = {<<"ALTERED", "EXPOSURE", "ACCIDENT", "LAB_ACCIDENT", 60>>}

\* ------------------------------------- the cost phase over stored expressions
\* generate_power_expression_costs reads whatever power_expression holds.
\* SpecCost runs it over one or two stored expressions of any form whose
\* constraints column holds one of these texts.
CostForms ==
  {"TOUCH", "PROJECTILE", "BEAM", "ZONE", "AURA", "MOVEMENT", "SUMMON", "SENSE",
   "PASSIVE"}

StoredConstraints ==
  { json_dumps(Dict(FALSE, JNull)), json_dumps(Dict(TRUE, JInt(5))),
    json_dumps(Dict(TRUE, JFloat(27))), json_dumps(Dict(TRUE, JStr("3"))),
    json_dumps(Dict(TRUE, JStr("soon"))), json_dumps(Dict(TRUE, JNull)),
    InvalidText, ArrayText, NullText }

StoredExpression(name, form, text) ==
  [expression_id |-> stable_id(<<1, name, form, "INSTANT">>), power_id |-> 1,
   expression_name |-> make_ui_suffix(form), form |-> form, delivery |-> "INSTANT",
   constraints |-> text, is_enabled |-> TRUE]

InitCost ==
  /\ Superpower4 = {}
  /\ power_tag \in {{}, {<<1, "mind">>}}
  /\ \E fa \in CostForms, ta \in StoredConstraints :
       \E others \in {{}} \cup {{StoredExpression("second", fb, tb)} :
                                  fb \in CostForms,
                                  tb \in {json_dumps(Dict(TRUE, JInt(5))), InvalidText}} :
         disk = [EmptyTables EXCEPT
                   !.power_expression = {StoredExpression("first", fa, ta)} \cup others]
  /\ pc = <<"cost", "ready">>
  /\ cap = MainCap
  /\ phaseStart = EmptyTables
  /\ lostWrites = FALSE
  /\ report = <<0, 0>>
  /\ lastRun = NoRun
  /\ accForm = "TOUCH"
  /\ accSignatures = EmptyDict
  /\ accLast = NoCall
  /\ stderr = NoError
  /\ schema = FullSchema
  /\ schemaStart = FullSchema
  /\ attempt = NoAttempt
  /\ boundBefore = {}

NextCost == generate_power_expression_costs

SpecCost == InitCost /\ [][NextCost]_vars

\* the cost phase has ended: it has committed or it has failed
CostPhaseEnded == pc \in {<<"sig", "ready">>, <<"cost", "failed">>}

FormDefaultCooldown(form) ==
  CASE form = "TOUCH" -> 1
    [] form \in {"PROJECTILE", "BEAM", "ZONE", "AURA", "MOVEMENT"} -> 2
    [] form = "SUMMON" -> 4
    [] OTHER -> 0

\* the COOLDOWN rows stored for e, with their multiplicity
CooldownCount(e) ==
  BagCardinality([r \in {x \in CostRowsOf(e) : x.cost_type = "COOLDOWN"} |->
                    CopiesIn(r, disk.power_expression_cost)])

CooldownValues(e) == {r.value : r \in {x \in CostRowsOf(e) : x.cost_type = "COOLDOWN"}}

\* C14: an expression whose stored constraints are not parseable does not
\* fail the cost phase: the phase commits, and that expression and every
\* other one have their cost rows, the cooldown of the unparseable one being
\* the default of its form.
C14_MalformedRecovered ==
  (CostPhaseEnded /\ stderr.error # "sqlite3.Error") =>
    \A e \in EnabledExpressions(disk) :
      ~ JsonParses(e.constraints) =>
        /\ pc = <<"sig", "ready">>
        /\ e.form \in {"TOUCH", "SUMMON"} =>
             CooldownValues(e) = {FormDefaultCooldown(e.form)}
        /\ \A o \in EnabledExpressions(disk) :
             o.form = "TOUCH" => CostRowsOf(o) # {}

\* the cooldown value is a number, or a string that int() reads as one
NumericCooldown(v) == v.type \in {"int", "float"} \/ (v.type = "str" /\ v.text = "3")

IntegerValue(v) ==
  CASE v.type = "int" -> v.n
    [] v.type = "float" -> v.tenths \div 10
    [] OTHER -> 3

\* C20: for every expression of form TOUCH, PROJECTILE, BEAM, ZONE, AURA,
\* MOVEMENT or SUMMON the committed cost phase has written exactly one
\* COOLDOWN row: the integer value of constraints.cooldown when the key is
\* present and numeric, the form default otherwise; SENSE and PASSIVE have
\* none; and a cooldown that is not numeric does not fail the phase.
C20_CooldownRow ==
  /\ pc = <<"sig", "ready">> =>
       \A e \in EnabledExpressions(disk) :
         IF e.form \in {"TOUCH", "PROJECTILE", "BEAM", "ZONE", "AURA", "MOVEMENT",
                        "SUMMON"}
           THEN /\ CooldownCount(e) = 1
                /\ CooldownValues(e) =
                     { IF /\ e.constraints.json = "object"
                          /\ e.constraints.value.has_cooldown
                          /\ NumericCooldown(e.constraints.value.cooldown)
                         THEN IntegerValue(e.constraints.value.cooldown)
                         ELSE FormDefaultCooldown(e.form) }
           ELSE CooldownCount(e) = 0
  /\ (pc = <<"cost", "failed">> /\ stderr.error # "sqlite3.Error") =>
       \E e \in EnabledExpressions(disk) : e.constraints.json \notin {"object", "array", "null"}

\* the phase has committed over a SUMMON expression whose cooldown is the
\* string "soon" (row value 4) and a TOUCH expression with cooldown 5
C20_Witness ==
  /\ pc = <<"sig", "ready">>
  /\ \E e \in EnabledExpressions(disk) :
       /\ e.form = "SUMMON"
       /\ e.constraints = json_dumps(Dict(TRUE, JStr("soon")))
       /\ CooldownValues(e) = {4}
  /\ \E e \in EnabledExpressions(disk) :
       /\ e.form = "TOUCH"
       /\ e.constraints = json_dumps(Dict(TRUE, JInt(5)))
       /\ CooldownValues(e) = {5}

\* ------------------------------------------------------------ persona_power
\* The persona-binding tool and the clients that write persona_power, on a
\* database that the pipeline fills for one tagged and one untagged entity.

\* the columns of the table ensure_persona_power_schema creates
CurrentColumns ==
  {"persona_id", "power_id", "expression_id", "mastery_level", "modifiers",
   "is_unlocked"}

\* an older table, which the upgrade copies: it has "mastery" and lacks
\* mastery_level and is_unlocked
LegacyColumns == {"persona_id", "power_id", "expression_id", "mastery", "modifiers"}

\* an older table without power_id: the upgrade's SELECT names power_id
OldestColumns == {"persona_id", "expression_id", "modifiers"}

\* --persona: "" stands for the option left out
Personas == {"hero"}

\* --take-per-power
TakeArgs == {0, 2}

\* --mastery: 101 is outside CHECK (mastery_level BETWEEN 1 AND 100)
MasteryArgs == {1, 101}

\* --modifiers: the default '{}' and a text that is not JSON
ModifierArgs == {json_dumps(Dict(FALSE, JNull)), InvalidText}

\* an expression_id that no power_expression row has
MissingExpression == stable_id(<<1, "tmpl_absent", "TOUCH", "TOUCH">>)

PersonaRow(persona_id, power_id, expression_id, mastery_level, modifiers) ==
  [persona_id |-> persona_id, power_id |-> power_id, expression_id |-> expression_id,
   mastery_level |-> mastery_level, modifiers |-> modifiers, is_unlocked |-> TRUE]

\* a trigger that only asks for the expression to exist
persona_power_check_ExpressionOnly(v, new) ==
  \E pe \in v.power_expression : pe.expression_id = new.expression_id

\* the EXISTS of both triggers: FALSE makes the trigger RAISE(ABORT)
persona_power_check(v, new) ==
  \E pe \in v.power_expression :
    /\ pe.expression_id = new.expression_id
    /\ pe.power_id = new.power_id

needs_upgrade(cols) == ~ ({"power_id", "mastery_level", "is_unlocked"} \subseteq cols)

\* ensure_persona_power_schema, each statement committed as it is executed
\* (DDL outside a transaction).  The tables of the model that need the upgrade
\* hold no rows, so the copy moves none.  Without a power_id column the copy
\* raises "no such column" and leaves persona_power_new behind.
ensure_persona_power_schema(s) ==
  IF "persona_power" \notin s.tables
    THEN [raised |-> FALSE,
          schema |-> [tables |-> s.tables \cup {"persona_power"},
                      persona_columns |-> CurrentColumns,
                      persona_triggers |-> TRUE]]
  ELSE IF needs_upgrade(s.persona_columns)
    THEN IF "power_id" \in s.persona_columns
           THEN [raised |-> FALSE,
                 schema |-> [tables |-> s.tables \ {"persona_power_new"},
                             persona_columns |-> CurrentColumns,
                             persona_triggers |-> TRUE]]
           ELSE [raised |-> TRUE,
                 schema |-> [s EXCEPT !.tables = @ \cup {"persona_power_new"}]]
  ELSE [raised |-> FALSE, schema |-> [s EXCEPT !.persona_triggers = TRUE]]

\* load_expressions: the enabled expression ids of a power
load_expressions(v, power_id) ==
  {e.expression_id : e \in {x \in EnabledExpressions(v) : x.power_id = power_id}}

\* the <<power_id, expression_id>> of expr_ids[:expressions_per_power] for
\* every power.  The ids are digests, and ORDER BY expression_id orders the
\* digests: which n ids of a power come first is left open.
Selections(v, n) ==
  { chosen \in SUBSET {<<e.power_id, e.expression_id>> : e \in EnabledExpressions(v)} :
      \A p \in PowerIds :
        Cardinality({c \in chosen : c[1] = p})
          = Min(n, Cardinality(load_expressions(v, p))) }

\* INSERT .. ON CONFLICT(persona_id, expression_id) DO UPDATE, for every
\* chosen <<power_id, expression_id>>
Upserted(rows, persona_id, chosen, mastery_level, modifiers) ==
  LET hit(r) == r.persona_id = persona_id /\ \E c \in chosen : c[2] = r.expression_id
      fresh == {c \in chosen :
                  ~ \E r \in rows : r.persona_id = persona_id
                                    /\ r.expression_id = c[2]}
  IN {r \in rows : ~ hit(r)}
     \cup {[r EXCEPT !.mastery_level = mastery_level, !.modifiers = modifiers,
                     !.is_unlocked = TRUE] : r \in {x \in rows : hit(x)}}
     \cup {PersonaRow(persona_id, c[1], c[2], mastery_level, modifiers) : c \in fresh}

\* seed_persona: BEGIN, the optional DELETE, the upserts, COMMIT.  A statement
\* that a trigger or the CHECK on mastery_level rejects raises, and the
\* transaction is never committed.
seed_persona(v, triggers, persona_id, chosen, mastery_level, modifiers, replace) ==
  LET kept == IF replace THEN {r \in v.persona_power : r.persona_id # persona_id}
              ELSE v.persona_power
      after == Upserted(kept, persona_id, chosen, mastery_level, modifiers)
      inserts == {PersonaRow(persona_id, c[1], c[2], mastery_level, modifiers) :
                    c \in chosen}
      rejected == triggers /\ \E new \in inserts \cup (after \ kept) :
                                ~ persona_power_check(v, new)
      checked == chosen # {} /\ mastery_level \notin 1..100
  IN [raised |-> rejected \/ checked,
      disk |-> [v EXCEPT !.persona_power = after]]

\* persona_power.py main: the schema is ensured and committed, then the
\* modifiers are parsed, then the persona is bound
persona_power_main ==
  /\ pc \in {<<"main", "idle">>, <<"persona", "idle">>, <<"persona", "failed">>}
  /\ \E persona_id \in Personas \cup {""}, modifiers \in ModifierArgs :
       LET ensured == ensure_persona_power_schema(schema)
       IN /\ schema' = ensured.schema
          /\ IF ensured.raised
               THEN /\ stderr' = Error("sqlite3.OperationalError")
                    /\ pc' = <<"persona", "failed">>
                    /\ disk' = disk
             ELSE IF persona_id = ""
               THEN /\ stderr' = NoError
                    /\ pc' = <<"persona", "idle">>
                    /\ disk' = disk
             ELSE IF ~ JsonParses(modifiers)
               THEN /\ stderr' = Error("SystemExit: Invalid JSON for modifiers")
                    /\ pc' = <<"persona", "failed">>
                    /\ disk' = disk
             ELSE \E take \in TakeArgs, mastery \in MasteryArgs, replace \in BOOLEAN :
                  \E chosen \in Selections(disk, Max(1, take)) :
                    LET seeded == seed_persona(disk, ensured.schema.persona_triggers,
                                               persona_id, chosen, Max(1, mastery),
                                               json_dumps(json_loads(modifiers)),
                                               replace)
                    IN IF seeded.raised
                         THEN /\ stderr' = Error("sqlite3.IntegrityError")
                              /\ pc' = <<"persona", "failed">>
                              /\ disk' = Durable(Begin(FALSE), disk, seeded.disk)
                         ELSE /\ stderr' = NoError
                              /\ pc' = <<"persona", "idle">>
                              /\ disk' = seeded.disk
  /\ schemaStart' = schema
  /\ phaseStart' = disk
  /\ lostWrites' = FALSE
  /\ attempt' = NoAttempt
  /\ UNCHANGED <<inputVars, cap, report, lastRun, accVars, boundBefore>>

\* RAISE(ABORT, 'expression does not belong to power')
NotOfPower == Error("sqlite3.IntegrityError: expression does not belong to power")

\* a statement of a client on persona_power: the trigger runs before the
\* row is written, then the primary key is checked
Write(op, old, new) ==
  /\ attempt' = [op |-> op, row |-> <<new.persona_id, new.power_id, new.expression_id>>]
  /\ phaseStart' = disk
  /\ IF schema.persona_triggers /\ ~ persona_power_check(disk, new)
       THEN /\ stderr' = NotOfPower
            /\ disk' = disk
     ELSE IF \E r \in disk.persona_power \ old :
               r.persona_id = new.persona_id /\ r.expression_id = new.expression_id
       THEN /\ stderr' = Error("sqlite3.IntegrityError: UNIQUE constraint failed")
            /\ disk' = disk
     ELSE /\ stderr' = NoError
          /\ disk' = [disk EXCEPT !.persona_power = (@ \ old) \cup {new}]
  /\ UNCHANGED <<inputVars, pc, cap, lostWrites, report, lastRun, accVars, schema,
                 schemaStart, boundBefore>>

\* INSERT INTO persona_power, behind the trigger persona_power_check_insert
persona_power_check_insert ==
  /\ pc \in {<<"main", "idle">>, <<"persona", "idle">>, <<"persona", "failed">>}
  /\ "persona_power" \in schema.tables
  /\ schema.persona_columns = CurrentColumns
  /\ \E persona_id \in Personas, power_id \in PowerIds,
        expression_id \in {e.expression_id : e \in disk.power_expression}
                          \cup {MissingExpression} :
       Write("insert", {},
             PersonaRow(persona_id, power_id, expression_id, 1,
                        json_dumps(Dict(FALSE, JNull))))

\* UPDATE persona_power SET power_id = ?, expression_id = ?, behind the
\* trigger persona_power_check_update
persona_power_check_update ==
  /\ pc \in {<<"main", "idle">>, <<"persona", "idle">>, <<"persona", "failed">>}
  /\ "persona_power" \in schema.tables
  /\ schema.persona_columns = CurrentColumns
  /\ \E row \in disk.persona_power, power_id \in PowerIds,
        expression_id \in {e.expression_id : e \in disk.power_expression}
                          \cup {MissingExpression} :
       Write("update", {row},
             [row EXCEPT !.power_id = power_id, !.expression_id = expression_id])

\* the database the persona tool is first run on: no persona_power table, or
\* an older one without rows
InitPersona ==
  /\ power_tag = {<<1, "space">>}
  /\ Superpower4 = {}
  /\ disk = EmptyTables
  /\ pc = <<"main", "idle">>
  /\ cap = MainCap
  /\ phaseStart = EmptyTables
  /\ lostWrites = FALSE
  /\ report = <<0, 0>>
  /\ lastRun = NoRun
  /\ accForm = "TOUCH"
  /\ accSignatures = EmptyDict
  /\ accLast = NoCall
  /\ stderr = NoError
  /\ schema \in { FullSchema,
                  [tables |-> FullSchema.tables \cup {"persona_power"},
                   persona_columns |-> LegacyColumns, persona_triggers |-> FALSE],
                  [tables |-> FullSchema.tables \cup {"persona_power"},
                   persona_columns |-> OldestColumns, persona_triggers |-> FALSE] }
  /\ schemaStart = schema
  /\ attempt = NoAttempt
  /\ boundBefore = {}

NextPersona ==
  \/ Main
  \/ seed_expression_templates
  \/ generate_power_expressions
  \/ generate_power_expression_costs
  \/ generate_power_expression_signatures
  \/ generate_acquisition_profiles
  \/ validate
  \/ persona_power_main
  \/ persona_power_check_insert
  \/ persona_power_check_update

SpecPersona == InitPersona /\ [][NextPersona]_vars

\* C15: when the persona tool is given a persona and modifiers that are not
\* well-formed JSON, it reports the error before any mutation: no table has
\* been created, upgraded, dropped or written when the error is reported.
C15_NoMutationBeforeError ==
  stderr.error = "SystemExit: Invalid JSON for modifiers" =>
    /\ schema = schemaStart
    /\ disk = phaseStart

SigForms == CostForms \cup {"CUSTOM"}

\* one tag of each of seven tag sets of the phase, and a tag of none
SigTags == {"light", "tech", "fire", "body", "mind", "space", "magic", "unmapped_tag"}

InitSig ==
  /\ Superpower4 = {}
  /\ power_tag \in SUBSET {<<1, t>> : t \in SigTags}
  /\ \E form \in SigForms :
       disk = [EmptyTables EXCEPT
                 !.power_expression =
                   {StoredExpression("first", form, json_dumps(Dict(FALSE, JNull)))}]
  /\ pc = <<"sig", "ready">>
  /\ cap = MainCap
  /\ phaseStart = EmptyTables
  /\ lostWrites = FALSE
  /\ report = <<0, 0>>
  /\ lastRun = NoRun
  /\ accForm = "TOUCH"
  /\ accSignatures = EmptyDict
  /\ accLast = NoCall
  /\ stderr = NoError
  /\ schema = FullSchema
  /\ schemaStart = FullSchema
  /\ attempt = NoAttempt
  /\ boundBefore = {}

\* recreate_signature_table: DROP TABLE IF EXISTS and CREATE TABLE between
\* BEGIN and COMMIT
recreate_signature_table(s, v) ==
  [schema |-> [s EXCEPT !.tables = @ \cup {"power_expression_signature"}],
   disk |-> [v EXCEPT !.power_expression_signature = EmptyBag]]

\* refresh_signatures.py main: the table is recreated and committed, then
\* generate_power_expression_signatures runs on the same connection; it may
\* raise in require_tables, or in a statement after its BEGIN
refresh_signatures ==
  /\ pc[2] \in {"idle", "failed"}
  /\ LET recreated == recreate_signature_table(schema, disk)
         missing == require_tables(recreated.schema.tables,
                      <<"power_expression_signature", "power_expression", "power_tag">>)
         filled == [recreated.disk EXCEPT !.power_expression_signature =
                      @ (+) SignatureLoop(EnabledExpressions(recreated.disk), power_tag)]
     IN /\ schema' = recreated.schema
        /\ \E raised \in BOOLEAN :
             IF missing # << >>
               THEN /\ disk' = recreated.disk
                    /\ stderr' = MissingTables(missing)
                    /\ pc' = <<"refresh", "failed">>
             ELSE IF raised
               THEN /\ disk' = Durable(Begin(FALSE), recreated.disk, filled)
                    /\ stderr' = Error("sqlite3.Error")
                    /\ pc' = <<"refresh", "failed">>
             ELSE /\ disk' = filled
                  /\ stderr' = NoError
                  /\ pc' = <<"refresh", "idle">>
  /\ phaseStart' = disk
  /\ schemaStart' = schema
  /\ lostWrites' = FALSE
  /\ UNCHANGED <<inputVars, cap, report, lastRun, accVars, attempt, boundBefore>>

NextSig ==
  \/ generate_power_expression_signatures
  \/ generate_acquisition_profiles
  \/ validate
  \/ refresh_signatures

SpecSig == InitSig /\ [][NextSig]_vars

\* the signature types in the fixed order of the tag-driven step
SignatureOrder ==
  << "VISUAL_ANOMALY", "EM_SPIKE", "THERMAL_BLOOM", "ACOUSTIC_SHOCK",
     "CHEMICAL_RESIDUE", "BIO_MARKER", "PSYCHIC_ECHO", "DIMENSIONAL_RESIDUE",
     "GRAVITIC_DISTURBANCE", "ARCANE_RESONANCE", "CAUSAL_IMPRINT", "KINETIC_STRESS",
     "RADIATION_TRACE" >>

TagSetOf(sig_type) ==
  CASE sig_type = "VISUAL_ANOMALY" -> visual_tags
    [] sig_type = "EM_SPIKE" -> em_tags
    [] sig_type = "THERMAL_BLOOM" -> thermal_tags
    [] sig_type = "ACOUSTIC_SHOCK" -> acoustic_tags
    [] sig_type = "CHEMICAL_RESIDUE" -> chemical_tags
    [] sig_type = "BIO_MARKER" -> bio_tags
    [] sig_type = "PSYCHIC_ECHO" -> psychic_tags
    [] sig_type = "DIMENSIONAL_RESIDUE" -> dimensional_tags
    [] sig_type = "GRAVITIC_DISTURBANCE" -> grav_tags
    [] sig_type = "ARCANE_RESONANCE" -> arcane_tags
    [] sig_type = "CAUSAL_IMPRINT" -> causal_tags
    [] sig_type = "KINETIC_STRESS" -> kinetic_tags
    [] OTHER -> radiation_tags

\* the signature rows stored for e
StoredSignatures(e) ==
  {r \in BagToSet(disk.power_expression_signature) : r.expression_id = e.expression_id}

\* the types that the form-driven step emits for e
FormTypes(e) == DOMAIN StepA(e.form, load_power_tags(power_tag, e.power_id))

\* the positions of SignatureOrder whose tag set meets the tags of e's entity
\* and whose type the form-driven step did not emit
OpenPositions(e) ==
  {i \in 1..Len(SignatureOrder) :
     /\ (TagSetOf(SignatureOrder[i]) \cap load_power_tags(power_tag, e.power_id)) # {}
     /\ SignatureOrder[i] \notin FormTypes(e)}

\* the first two of them
FirstTwoOpen(e) ==
  {i \in OpenPositions(e) : Cardinality({j \in OpenPositions(e) : j < i}) < 2}

\* the signature phase has written the table that is stored
SignaturesWritten == pc \in {<<"acq", "ready">>, <<"acq", "failed">>, <<"main", "validate">>,
                             <<"main", "idle">>}

\* C21: for a non-PASSIVE expression the tag-driven step adds at most two
\* types, exactly the first two of the fixed order whose tag set meets the
\* entity's tags and which the form-driven step did not emit, each stored with
\* the default strength and persistence of the form.
C21_TagDrivenExtras ==
  SignaturesWritten =>
    \A e \in {x \in disk.power_expression : x.form # "PASSIVE"} :
      LET extraTypes == {SignatureOrder[i] : i \in FirstTwoOpen(e)}
          stored == {r.signature_type : r \in StoredSignatures(e)}
      IN /\ Cardinality(stored \ FormTypes(e)) <= 2
         /\ FormTypes(e) \cup extraTypes # {} => stored = FormTypes(e) \cup extraTypes
         /\ \A r \in StoredSignatures(e) :
              r.signature_type \in extraTypes =>
                /\ r.strength = form_strength(e.form)
                /\ r.persistence_turns = form_persistence(e.form)

\* a ZONE expression of an entity with electric, thermal and biological tags
\* has got EM_SPIKE and THERMAL_BLOOM from the tag-driven step, and no
\* BIO_MARKER
C21_Witness ==
  /\ SignaturesWritten
  /\ \E e \in disk.power_expression :
       /\ e.form = "ZONE"
       /\ {"tech", "fire", "body"} \subseteq load_power_tags(power_tag, e.power_id)
       /\ {r.signature_type : r \in StoredSignatures(e)}
            = {"VISUAL_ANOMALY", "EM_SPIKE", "THERMAL_BLOOM"}
       /\ \E r \in StoredSignatures(e) :
            r.signature_type = "EM_SPIKE" /\ r.strength = 50 /\ r.persistence_turns = 6

\* C22: when the regeneration step of refresh_signatures fails, the
\* signature rows that were stored before the tool ran are still stored.
C22_RefreshKeepsRows ==
  pc = <<"refresh", "failed">> =>
    disk.power_expression_signature = phaseStart.power_expression_signature

\* the expression phase of the current run has committed
ExpressionsRegenerated ==
  pc \in {<<"cost", "ready">>, <<"cost", "failed">>, <<"sig", "ready">>,
          <<"sig", "failed">>, <<"acq", "ready">>, <<"acq", "failed">>,
          <<"main", "validate">>}

\* C23: the expression phase's delete of all power_expression rows removes
\* every persona_power binding and every stored signature row, so a binding
\* made before a pipeline run is absent after it, also when the run stores an
\* expression with the same expression_id again.
C23_CascadeRemovesBindings ==
  /\ ExpressionsRegenerated => disk.persona_power = {}
  /\ pc = <<"cost", "ready">> => disk.power_expression_signature = EmptyBag

\* a run that began with bindings and signature rows stored has regenerated
\* the bound expressions under the same ids, and no binding is left
C23_Witness ==
  /\ pc = <<"main", "validate">>
  /\ boundBefore # {}
  /\ lastRun.valid
  /\ lastRun.counts[5] > 0
  /\ \A b \in boundBefore :
       \E e \in disk.power_expression :
         e.expression_id = b.expression_id /\ e.power_id = b.power_id
  /\ disk.persona_power = {}

\* the <<strength, persistence>> pairs stored for e under a type
StoredValues(e, sig_type) ==
  {<<r.strength, r.persistence_turns>> :
     r \in {x \in StoredSignatures(e) : x.signature_type = sig_type}}

\* C24: a type that the form-driven step emitted is never added again, so it
\* keeps exactly the strength and persistence of that step and is not raised
\* to the form default by the tag-driven step: a TOUCH expression stores
\* BIO_MARKER (12, 2) for an entity with biological tags and VISUAL_ANOMALY
\* (10, 1) for one without, the TOUCH default being (15, 2).
C24_FormValuesKept ==
  SignaturesWritten =>
    \A e \in {x \in disk.power_expression : x.form # "PASSIVE"} :
      LET tags == load_power_tags(power_tag, e.power_id)
      IN /\ \A t \in FormTypes(e) :
              /\ StoredValues(e, t) = {StepA(e.form, tags)[t]}
              /\ \A r \in StoredSignatures(e) :
                   r.signature_type = t => CopiesIn(r, disk.power_expression_signature) = 1
         /\ e.form = "TOUCH" =>
              IF (tags \cap bio_tags) # {}
                THEN StoredValues(e, "BIO_MARKER") = {<<12, 2>>}
                ELSE StoredValues(e, "VISUAL_ANOMALY") = {<<10, 1>>}

\* a TOUCH expression of an entity whose tags meet the biological and the
\* visual set stores BIO_MARKER (12, 2), next to a tag-driven VISUAL_ANOMALY
\* with the TOUCH default
C24_Witness ==
  /\ SignaturesWritten
  /\ \E e \in disk.power_expression :
       /\ e.form = "TOUCH"
       /\ {"body", "light"} \subseteq load_power_tags(power_tag, e.power_id)
       /\ StoredValues(e, "BIO_MARKER") = {<<12, 2>>}
       /\ StoredValues(e, "VISUAL_ANOMALY") = {<<15, 2>>}

\* C25: in a pipeline run with the seeded and the built-in fallback
\* templates the hard-fallback signature VISUAL_ANOMALY (5, 1) is never
\* stored: every generated expression that is not PASSIVE has one of the
\* eight forms of the form-driven step, which gives it a signature.
C25_NoHardFallback ==
  /\ \A r \in BagToSet(disk.power_expression_signature) :
       ~ (r.signature_type = "VISUAL_ANOMALY" /\ r.strength = 5
          /\ r.persistence_turns = 1)
  /\ \A e \in disk.power_expression :
       /\ e.form \in {"TOUCH", "BEAM", "PROJECTILE", "ZONE", "AURA", "MOVEMENT",
                      "SUMMON", "SENSE", "PASSIVE"}
       /\ e.form # "PASSIVE" => FormTypes(e) # {}

\* the signature phase of a run has stored rows for the TOUCH fallbacks of
\* an entity without tags and for another form of a tagged entity
C25_Witness ==
  /\ pc = <<"acq", "ready">>
  /\ \E e \in disk.power_expression :
       /\ e.form = "TOUCH"
       /\ load_power_tags(power_tag, e.power_id) = {}
       /\ StoredValues(e, "VISUAL_ANOMALY") = {<<10, 1>>}
  /\ \E e \in disk.power_expression :
       /\ e.form \notin {"TOUCH", "PASSIVE"}
       /\ StoredSignatures(e) # {}

====
